---- MODULE Spec2Model ----
(***************************************************************************)
(* A model of ot (elcuervo/ot): checkbox-task extraction from markdown     *)
(* files, single-line mutation, the mtime-gated task cache, the directory  *)
(* watcher with debounced refresh and self-write suppression, the bounded  *)
(* undo stack, priorities, and the sorting and grouping of the records of  *)
(* a query.                                                                *)
(*                                                                         *)
(* Text.  A line of a file is a sequence of tokens.  A token stands for    *)
(* one character or for one lexeme the regular expressions of the source   *)
(* treat as a unit:                                                        *)
(*   " "                 a white-space character (\s)                      *)
(*   "-"                 the list marker                                   *)
(*   "[ ]" "[x]" "[X]"   a checkbox                                        *)
(*   "a" "b"             ordinary text                                     *)
(*   "CHK"               the done glyph (U+2705)                           *)
(*   "DUE"               the due glyph (U+1F4C5)                           *)
(*   "D1" "D2" "D3"      well-formed dates YYYY-MM-DD, in calendar order   *)
(*   "DX"                YYYY-MM-DD digits that are no calendar date       *)
(*   "P1" "P2" "P3" "P5" "P6"   the five priority glyphs                   *)
(* A file is the sequence of lines strings.Split(content, "\n") yields.    *)
(*                                                                         *)
(* Time.  The clock now counts ticks of 500ms.                             *)
(*                                                                         *)
(* Variables.  sut and op belong to the specifications of the components   *)
(* taken alone (the record under study and the label of the last step).    *)
(* The others are the running program:                                     *)
(*   m           the fields of the Bubble Tea model                        *)
(*   heap        the Task objects the program holds pointers to            *)
(*   disk        the vault files: lines, and a modification time that      *)
(*               every write advances                                      *)
(*   caches      the files map of each tab's TaskCache                     *)
(*   watchers    per tab, the events fsnotify has queued and the number of *)
(*               WatchCmd readers blocked on the Events channel            *)
(*   debouncers  each tab's Debouncer                                      *)
(*   ticks       the tea.Tick timers of schedulePrioritySave in flight     *)
(*   editor      "running" while tea.ExecProcess runs the external editor  *)
(*               (the event loop is blocked), "finished" or "failed" while *)
(*               an editorFinishedMsg is in flight, "idle" otherwise       *)
(*   now         the clock                                                 *)
(*   env         what the user and the environment have done so far: the   *)
(*               budgets keys, external, failures and the counter seq that *)
(*               tells two readings of time.Now() apart; and history the   *)
(*               properties refer to: wrote (the file the program wrote in *)
(*               the last step), refreshed (the last step ran a refresh),  *)
(*               dirty (tabs with an unsuppressed change of their vault    *)
(*               not yet followed by a refresh of that tab), preDelete     *)
(*               (the file a Delete changed, as it was before, while no    *)
(*               other write has touched it)                               *)
(***************************************************************************)
EXTENDS Integers, Sequences, FiniteSets, TLC

VARIABLES sut, op, m, heap, disk, caches, watchers, debouncers, ticks, editor, now, env

sysVars == <<m, heap, disk, caches, watchers, debouncers, ticks, editor, now, env>>

vars == <<sut, op, m, heap, disk, caches, watchers, debouncers, ticks, editor, now, env>>

\* the program is not running in the specifications of the components
SysIdle ==
  /\ m = 0 /\ heap = 0 /\ disk = 0 /\ caches = 0 /\ watchers = 0
  /\ debouncers = 0 /\ ticks = 0 /\ editor = 0 /\ now = 0 /\ env = 0

(***************************************************************************)
(* Bounds of the model.                                                    *)
(***************************************************************************)
MaxToggles == 3

(***************************************************************************)
(* Tokens.                                                                 *)
(***************************************************************************)
Checkboxes == {"[ ]", "[x]", "[X]"}
DateToks == {"D1", "D2", "D3"}
DigitToks == DateToks \cup {"DX"}
TodayTok == "D2"

IsWs(t) == t = " "

\* the number of leading white-space tokens of s
RECURSIVE LeadWs(_)
LeadWs(s) == IF s # <<>> /\ IsWs(Head(s)) THEN 1 + LeadWs(Tail(s)) ELSE 0

Drop(s, n) == SubSeq(s, n + 1, Len(s))
Take(s, n) == SubSeq(s, 1, n)

Reverse(s) == [i \in 1..Len(s) |-> s[Len(s) + 1 - i]]

\* strings.TrimSpace
TrimSpace(s) ==
  LET a == Drop(s, LeadWs(s))
  IN  Take(a, Len(a) - LeadWs(Reverse(a)))

(***************************************************************************)
(* Priority levels (lower value = higher priority).                        *)
(***************************************************************************)
PriorityHighest == 1
PriorityHigh == 2
PriorityMedium == 3
PriorityNormal == 4
PriorityLow == 5
PriorityLowest == 6

PriorityToks == {"P1", "P2", "P3", "P5", "P6"}

priorityEmojis(p) ==
  CASE p = PriorityHighest -> <<"P1">>
    [] p = PriorityHigh    -> <<"P2">>
    [] p = PriorityMedium  -> <<"P3">>
    [] p = PriorityLow     -> <<"P5">>
    [] p = PriorityLowest  -> <<"P6">>
    [] OTHER               -> <<>>

emojiToPriority(t) ==
  CASE t = "P1" -> PriorityHighest
    [] t = "P2" -> PriorityHigh
    [] t = "P3" -> PriorityMedium
    [] t = "P5" -> PriorityLow
    [] t = "P6" -> PriorityLowest
    [] OTHER    -> PriorityNormal

(***************************************************************************)
(* The regular expressions of the task grammar.                            *)
(***************************************************************************)
\* checkboxRe  ^(\s*-\s*)\[([ xX])\](.*)$ : the length of group 1, or -1
checkboxPrefixLen(line) ==
  LET i == LeadWs(line)
  IN  IF Len(line) > i /\ line[i + 1] = "-"
        THEN LET j == i + 1 + LeadWs(Drop(line, i + 1))
             IN  IF Len(line) > j /\ line[j + 1] \in Checkboxes THEN j ELSE -1
        ELSE -1

\* taskRe ^\s*-\s*\[([ xX])\]\s*(.*)$ accepts the lines checkboxRe accepts
taskReMatches(line) == checkboxPrefixLen(line) >= 0

\* doneRe taking the due glyph for the done glyph as well
doneReMatchLen_due(s) ==
  LET i == LeadWs(s)
  IN  IF Len(s) > i /\ s[i + 1] \in {"CHK", "DUE"}
        THEN LET j == i + 1 + LeadWs(Drop(s, i + 1))
             IN  IF Len(s) > j /\ s[j + 1] \in DigitToks THEN j + 1 ELSE 0
        ELSE 0

\* the length of a match of doneRe  \s*CHK\s*\d{4}-\d{2}-\d{2}  at the head
\* of s, or 0 when doneRe does not match there
doneReMatchLen(s) ==
  LET i == LeadWs(s)
  IN  IF Len(s) > i /\ s[i + 1] = "CHK"
        THEN LET j == i + 1 + LeadWs(Drop(s, i + 1))
             IN  IF Len(s) > j /\ s[j + 1] \in DigitToks THEN j + 1 ELSE 0
        ELSE 0

\* doneRe.ReplaceAllString(s, ""): one left-to-right pass over the
\* non-overlapping leftmost matches
RECURSIVE doneReStrip(_)
doneReStrip(s) ==
  IF s = <<>> THEN <<>>
  ELSE LET n == doneReMatchLen(s)
       IN  IF n > 0 THEN doneReStrip(Drop(s, n))
           ELSE <<Head(s)>> \o doneReStrip(Tail(s))

\* dueDateRe  DUE\s*(\d{4}-\d{2}-\d{2}) : group 1 of the first match, or ""
RECURSIVE dueDateReFind(_)
dueDateReFind(s) ==
  IF s = <<>> THEN ""
  ELSE IF Head(s) = "DUE"
         THEN LET j == LeadWs(Tail(s))
              IN  IF Len(s) > j + 1 /\ s[j + 2] \in DigitToks
                    THEN s[j + 2] ELSE dueDateReFind(Tail(s))
         ELSE dueDateReFind(Tail(s))

\* priorityRe.FindString: the first priority glyph, or ""
RECURSIVE priorityReFind(_)
priorityReFind(s) ==
  IF s = <<>> THEN ""
  ELSE IF Head(s) \in PriorityToks THEN Head(s) ELSE priorityReFind(Tail(s))

\* priorityRe.ReplaceAllString(s, "")
RECURSIVE priorityReStrip(_)
priorityReStrip(s) ==
  IF s = <<>> THEN <<>>
  ELSE IF Head(s) \in PriorityToks THEN priorityReStrip(Tail(s))
       ELSE <<Head(s)>> \o priorityReStrip(Tail(s))

(***************************************************************************)
(* Dates.  NoDate is the nil *time.Time; a date is its rank in the         *)
(* calendar.                                                               *)
(***************************************************************************)
NoDate == 0

DateRank(tok) ==
  CASE tok = "D1" -> 1
    [] tok = "D2" -> 2
    [] tok = "D3" -> 3
    [] OTHER      -> NoDate

\* parseDueDate: time.Parse fails on "DX"
parseDueDate(description) ==
  LET tok == dueDateReFind(description)
  IN  IF tok = "" THEN NoDate ELSE DateRank(tok)

parsePriority(description) ==
  LET match == priorityReFind(description)
  IN  IF match = "" THEN PriorityNormal ELSE emojiToPriority(match)

(***************************************************************************)
(* Task.                                                                   *)
(***************************************************************************)
\* the Task parseFile builds for a line matching taskRe
parseLine(filePath, lineNum, line) ==
  LET j           == checkboxPrefixLen(line)
      description == TrimSpace(Drop(line, j + 1))
  IN  [FilePath    |-> filePath,
       LineNumber  |-> lineNum,
       RawLine     |-> line,
       Done        |-> line[j + 1] \in {"[x]", "[X]"},
       Description |-> description,
       Modified    |-> FALSE,
       DueDate     |-> parseDueDate(description),
       Priority    |-> parsePriority(description)]

\* updateRawLine forgetting to strip the old done-date stamp
updateRawLine_keepStamp(t) ==
  LET j == checkboxPrefixLen(t.RawLine)
  IN  IF j < 0 THEN t
      ELSE LET prefix  == Take(t.RawLine, j)
               content == Drop(t.RawLine, j + 1)
           IN  IF t.Done
                 THEN [t EXCEPT !.RawLine =
                         prefix \o <<"[x]">> \o content \o <<" ", "CHK", " ", TodayTok>>]
                 ELSE [t EXCEPT !.RawLine = prefix \o <<"[ ]">> \o content]

updateRawLine(t) ==
  LET j == checkboxPrefixLen(t.RawLine)
  IN  IF j < 0 THEN t
      ELSE LET prefix  == Take(t.RawLine, j)
               content == doneReStrip(Drop(t.RawLine, j + 1))
           IN  IF t.Done
                 THEN [t EXCEPT !.RawLine =
                         prefix \o <<"[x]">> \o content \o <<" ", "CHK", " ", TodayTok>>]
                 ELSE [t EXCEPT !.RawLine = prefix \o <<"[ ]">> \o content]

Toggle(t) ==
  updateRawLine([t EXCEPT !.Done = ~t.Done, !.Modified = TRUE])

rebuildRawLine(t) ==
  LET j == checkboxPrefixLen(t.RawLine)
  IN  IF j < 0 THEN t
      ELSE LET prefix   == Take(t.RawLine, j)
               checkbox == IF t.Done THEN "[x]" ELSE "[ ]"
           IN  [t EXCEPT !.RawLine = prefix \o <<checkbox, " ">> \o t.Description]

\* SetPriority without the two comparisons that keep priority in range
SetPriority_unclamped(t, priority) ==
  LET d     == TrimSpace(priorityReStrip(t.Description))
      emoji == priorityEmojis(priority)
      desc  == IF emoji # <<>> THEN d \o <<" ">> \o emoji ELSE d
  IN  rebuildRawLine([t EXCEPT !.Description = desc, !.Priority = priority,
                               !.Modified = TRUE])

SetPriority(t, priority) ==
  LET p     == IF priority < PriorityHighest THEN PriorityHighest
               ELSE IF priority > PriorityLowest THEN PriorityLowest
               ELSE priority
      d     == TrimSpace(priorityReStrip(t.Description))
      emoji == priorityEmojis(p)
      desc  == IF emoji # <<>> THEN d \o <<" ">> \o emoji ELSE d
  IN  rebuildRawLine([t EXCEPT !.Description = desc, !.Priority = p, !.Modified = TRUE])

CyclePriorityUp(t) == SetPriority(t, t.Priority - 1)

CyclePriorityDown(t) == SetPriority(t, t.Priority + 1)

(***************************************************************************)
(* The undo stack.                                                         *)
(***************************************************************************)
OpToggle == "OpToggle"
OpDelete == "OpDelete"
OpPriorityChange == "OpPriorityChange"

OperationType == {OpToggle, OpDelete, OpPriorityChange}

maxUndoStackSize == 50

\* an UndoEntry; the fields an operation does not set have Go's zero value
UndoEntry(type, filePath, lineNumber, deletedLine, previousPriority, wasDone) ==
  [Type |-> type, Timestamp |-> 0, FilePath |-> filePath, LineNumber |-> lineNumber,
   DeletedLine |-> deletedLine, PreviousPriority |-> previousPriority, WasDone |-> wasDone]

\* pushUndo keeping the oldest entries on overflow
pushUndo_keepOldest(undoStack, entry, t) ==
  LET appended == Append(undoStack, [entry EXCEPT !.Timestamp = t])
  IN  IF Len(appended) > maxUndoStackSize
        THEN SubSeq(appended, 1, maxUndoStackSize)
        ELSE appended

\* pushUndo at time t: the new value of m.undoStack
pushUndo(undoStack, entry, t) ==
  LET appended == Append(undoStack, [entry EXCEPT !.Timestamp = t])
  IN  IF Len(appended) > maxUndoStackSize
        THEN SubSeq(appended, Len(appended) - maxUndoStackSize + 1, Len(appended))
        ELSE appended

\* popUndo: the new value of m.undoStack (the entry returned is the last one
\* of the old stack, nil when the stack is empty)
popUndo(undoStack) ==
  IF Len(undoStack) = 0 THEN undoStack ELSE SubSeq(undoStack, 1, Len(undoStack) - 1)

\* isRecentlyToggled without the test of the entry's Type
isRecentlyToggled_anyType(undoStack, task) ==
  \E i \in 1..Len(undoStack) :
    /\ undoStack[i].FilePath = task.FilePath
    /\ undoStack[i].LineNumber = task.LineNumber

\* isRecentlyToggled looking at the Delete entries
isRecentlyToggled_deletes(undoStack, task) ==
  \E i \in 1..Len(undoStack) :
    /\ undoStack[i].Type = OpDelete
    /\ undoStack[i].FilePath = task.FilePath
    /\ undoStack[i].LineNumber = task.LineNumber

isRecentlyToggled(undoStack, task) ==
  \E i \in 1..Len(undoStack) :
    /\ undoStack[i].Type = OpToggle
    /\ undoStack[i].FilePath = task.FilePath
    /\ undoStack[i].LineNumber = task.LineNumber

(***************************************************************************)
(* Queries.                                                                *)
(***************************************************************************)
\* resolveDate: today is the day of TodayTok; a string that is no date
\* resolves to today
resolveDate(dateStr) ==
  CASE dateStr = "today"      -> DateRank(TodayTok)
    [] dateStr = "tomorrow"   -> DateRank(TodayTok) + 1
    [] dateStr = "yesterday"  -> DateRank(TodayTok) - 1
    [] dateStr \in DateToks   -> DateRank(dateStr)
    [] OTHER                  -> DateRank(TodayTok)

\* the switch with every Field reading the due date
matchDateFilter_anyField(task, filter) ==
  IF task.DueDate = NoDate THEN FALSE
  ELSE IF Len(filter.Dates) > 0
    THEN \E i \in 1..Len(filter.Dates) :
           LET target == resolveDate(filter.Dates[i])
           IN  CASE filter.Operator = "on"     -> task.DueDate = target
                 [] filter.Operator = "before" -> task.DueDate < target
                 [] filter.Operator = "after"  -> task.DueDate > target
                 [] OTHER                      -> FALSE
    ELSE LET targetDate == resolveDate(filter.Date)
         IN  CASE filter.Operator = "on"     -> task.DueDate = targetDate
               [] filter.Operator = "before" -> task.DueDate < targetDate
               [] filter.Operator = "after"  -> task.DueDate > targetDate
               [] OTHER                      -> TRUE

matchDateFilter(task, filter) ==
  IF filter.Field # "due" THEN TRUE
  ELSE IF task.DueDate = NoDate THEN FALSE
  ELSE IF Len(filter.Dates) > 0
    THEN \E i \in 1..Len(filter.Dates) :
           LET target == resolveDate(filter.Dates[i])
           IN  CASE filter.Operator = "on"     -> task.DueDate = target
                 [] filter.Operator = "before" -> task.DueDate < target
                 [] filter.Operator = "after"  -> task.DueDate > target
                 [] OTHER                      -> FALSE
    ELSE LET targetDate == resolveDate(filter.Date)
         IN  CASE filter.Operator = "on"     -> task.DueDate = targetDate
               [] filter.Operator = "before" -> task.DueDate < targetDate
               [] filter.Operator = "after"  -> task.DueDate > targetDate
               [] OTHER                      -> TRUE

matchAllDateFilters(task, filters) ==
  \A i \in 1..Len(filters) : matchDateFilter(task, filters[i])

\* the predicate with the recently-toggled exemption ahead of the date filters
filterKeep_recentFirst(undoStack, task, query) ==
  IF isRecentlyToggled(undoStack, task) THEN TRUE
  ELSE IF Len(query.DateFilters) > 0 /\ ~matchAllDateFilters(task, query.DateFilters)
    THEN FALSE
  ELSE IF query.NotDone /\ task.Done THEN FALSE
  ELSE TRUE

\* the predicate filterTasksWithRecent hands to Filter
filterKeep(undoStack, task, query) ==
  IF Len(query.DateFilters) > 0 /\ ~matchAllDateFilters(task, query.DateFilters)
    THEN FALSE
  ELSE IF isRecentlyToggled(undoStack, task) THEN TRUE
  ELSE IF query.NotDone /\ task.Done THEN FALSE
  ELSE TRUE

filterTasksWithRecent(undoStack, allTasks, query) ==
  LET keep(task) == filterKeep(undoStack, task, query)
  IN  SelectSeq(allTasks, keep)

(***************************************************************************)
(* The file system as os.Stat sees it: fs[path].exists, fs[path].mtime.    *)
(* A write stamps the file with the current time of the file system clock, *)
(* which need not have advanced since the previous write.                  *)
(***************************************************************************)
Paths == {"f1", "f2"}

\* os.Stat: err != nil iff the file does not exist
statErr(fs, path) == ~fs[path].exists

ModTime(fs, path) == fs[path].mtime

(***************************************************************************)
(* TaskCache.  files[path] is NoEntry or a CachedFile.                     *)
(***************************************************************************)
NoEntry == [cached |-> FALSE]

CachedFile(modTime, tasks) == [cached |-> TRUE, ModTime |-> modTime, Tasks |-> tasks]

NewTaskCache == [p \in Paths |-> NoEntry]

\* Get without the comparison of modification times
cacheGet_noMtime(files, fs, path) ==
  IF ~files[path].cached THEN [ok |-> FALSE, tasks |-> <<>>]
  ELSE IF statErr(fs, path) THEN [ok |-> FALSE, tasks |-> <<>>]
  ELSE [ok |-> TRUE, tasks |-> files[path].Tasks]

\* Get: <<tasks, ok>> as a record
cacheGet(files, fs, path) ==
  IF ~files[path].cached THEN [ok |-> FALSE, tasks |-> <<>>]
  ELSE IF statErr(fs, path) \/ ModTime(fs, path) > files[path].ModTime
         THEN [ok |-> FALSE, tasks |-> <<>>]
  ELSE [ok |-> TRUE, tasks |-> files[path].Tasks]

\* Set: the new value of c.files
cacheSet(files, fs, path, tasks) ==
  IF statErr(fs, path) THEN files
  ELSE [files EXCEPT ![path] = CachedFile(ModTime(fs, path), tasks)]

\* Invalidate emptying the whole map
cacheInvalidate_all(files, path) == NewTaskCache

\* Invalidate: the new value of c.files
cacheInvalidate(files, path) == [files EXCEPT ![path] = NoEntry]

(***************************************************************************)
(* Debouncer.  timer is the state of the time.Timer d.timer points to      *)
(* ("nil" before the first Trigger); deadline is the time it expires at;   *)
(* callbacks counts the goroutines the runtime has started for expired     *)
(* timers and that have not yet run their program.Send; others holds the   *)
(* deadlines of timers that are armed although d.timer no longer points to *)
(* them (AfterFunc does not cancel the timer it replaces).                 *)
(***************************************************************************)
\* the debounce duration handed to NewDebouncer, in ticks
DebounceTicks == 1

NewDebouncer ==
  [timer |-> "nil", deadline |-> 0, callbacks |-> 0, others |-> <<>>, program |-> FALSE]

SetProgram(d) == [d EXCEPT !.program = TRUE]

\* Trigger without the Stop
DebouncerStop_noStop(d) == d

\* Trigger, first half: d.mu.Lock(); if d.timer != nil { d.timer.Stop() }
\* Stop keeps a timer that has not expired from ever running its function
DebouncerStop(d) ==
  IF d.timer = "armed" THEN [d EXCEPT !.timer = "stopped"] ELSE d

\* Trigger, second half: d.timer = time.AfterFunc(d.duration, ...); unlock
DebouncerArm(d, t) ==
  [d EXCEPT !.timer = "armed", !.deadline = t + DebounceTicks,
            !.others = IF d.timer = "armed" THEN Append(@, d.deadline) ELSE @]

Trigger(d, t) == DebouncerArm(DebouncerStop(d), t)

\* a timer is armed and its deadline has come
TimerDue(d, t) ==
  \/ d.timer = "armed" /\ t >= d.deadline
  \/ \E i \in 1..Len(d.others) : t >= d.others[i]

\* the runtime finds a timer expired and starts its function in a goroutine
TimerExpire(d, t) ==
  IF d.timer = "armed" /\ t >= d.deadline
    THEN [d EXCEPT !.timer = "expired", !.callbacks = @ + 1]
    ELSE LET due(x) == t >= x
             notDue(x) == ~(t >= x)
         IN  [d EXCEPT !.others = SelectSeq(@, notDue),
                       !.callbacks = @ + Len(SelectSeq(d.others, due))]

\* the function of AfterFunc: 1 when it sends a DebouncedRefreshMsg
CallbackSends(d) == IF d.program THEN 1 ELSE 0

CallbackDone(d) == [d EXCEPT !.callbacks = @ - 1]

(***************************************************************************)
(* Helpers for reading lines.                                              *)
(***************************************************************************)
\* the tokens after the checkbox of a task line
ContentOf(line) == Drop(line, checkboxPrefixLen(line) + 1)

\* group 1 of checkboxRe: indentation and list marker
PrefixOf(line) == Take(line, checkboxPrefixLen(line))

CheckboxOf(line) == line[checkboxPrefixLen(line) + 1]

\* the tokens a done-date stamp is made of
StampClass == {" ", "CHK"} \cup DigitToks

TodayStamp == <<" ", "CHK", " ", TodayTok>>

EndsWith(s, suffix) ==
  Len(s) >= Len(suffix) /\ Drop(s, Len(s) - Len(suffix)) = suffix

\* a done-date stamp starts somewhere in s
HasStamp(s) == \E i \in 0..Len(s) : doneReMatchLen(Drop(s, i)) > LeadWs(Drop(s, i))

\* s without the tokens of the stamp class
RECURSIVE TextOf(_)
TextOf(s) ==
  IF s = <<>> THEN <<>>
  ELSE IF Head(s) \in StampClass THEN TextOf(Tail(s))
       ELSE <<Head(s)>> \o TextOf(Tail(s))

\* s arises from t by deleting tokens
RECURSIVE IsSubseq(_, _)
IsSubseq(s, t) ==
  IF s = <<>> THEN TRUE
  ELSE IF t = <<>> THEN FALSE
  ELSE IF Head(s) = Head(t) THEN IsSubseq(Tail(s), Tail(t))
       ELSE IsSubseq(s, Tail(t))

\* all sequences over alphabet of length at most n
RECURSIVE SeqsUpTo(_, _)
SeqsUpTo(alphabet, n) ==
  IF n = 0 THEN {<<>>}
  ELSE LET shorter == SeqsUpTo(alphabet, n - 1)
       IN  shorter \cup {<<a>> \o s : a \in alphabet, s \in {x \in shorter : Len(x) = n - 1}}

(***************************************************************************)
(* SpecToggle: Task.Toggle applied repeatedly to an extracted record.      *)
(***************************************************************************)
MaxToggleContent == 5

ToggleAlphabet == {" ", "a", "CHK", "D1"}

TogglePrefixes == {<<"-", " ">>, <<" ", "-">>}

ToggleLines ==
  {p \o <<c>> \o s : p \in TogglePrefixes, c \in Checkboxes,
                     s \in SeqsUpTo(ToggleAlphabet, MaxToggleContent)}

InitToggle ==
  /\ \E line \in ToggleLines :
       sut = [orig |-> parseLine("f1", 1, line),
              cur  |-> parseLine("f1", 1, line),
              n    |-> 0]
  /\ op = "init" /\ SysIdle

ToggleStep ==
  /\ sut.n < MaxToggles
  /\ sut' = [sut EXCEPT !.cur = Toggle(@), !.n = @ + 1]
  /\ op' = "Toggle" /\ UNCHANGED sysVars

NextToggle == ToggleStep

SpecToggle == InitToggle /\ [][NextToggle]_vars

Odd(n) == n % 2 = 1

\* every done glyph of the line starts a done-date stamp
WellStamped(s) ==
  \A i \in 1..Len(s) : s[i] = "CHK" => doneReMatchLen(Drop(s, i - 1)) > 0

\* C9 as stated: one Toggle flips Done; two consecutive Toggles restore Done
\* and leave the line without any done-date stamp.
C9_Original ==
  op = "Toggle" =>
    /\ sut.n = 1 => sut.cur.Done = ~sut.orig.Done
    /\ sut.n = 2 => sut.cur.Done = sut.orig.Done /\ ~HasStamp(sut.cur.RawLine)

\* C9 amended: n Toggles leave Done flipped iff n is odd, keep indentation and
\* marker, set the checkbox to [x] or [ ], delete only tokens of done-date
\* stamps from the text and, when the record is Done, end the line with one
\* stamp of today's date; a line whose done glyphs all belonged to stamps has
\* no done glyph left when the record is not Done.  In particular two Toggles
\* of a Done record leave it Done and stamped with today's date.
C9_Toggle ==
  op = "Toggle" =>
    LET o    == sut.orig.RawLine
        c    == sut.cur.RawLine
        body == IF sut.cur.Done
                  THEN Take(ContentOf(c), Len(ContentOf(c)) - Len(TodayStamp))
                  ELSE ContentOf(c)
    IN  /\ sut.cur.Done = (IF Odd(sut.n) THEN ~sut.orig.Done ELSE sut.orig.Done)
        /\ taskReMatches(c)
        /\ PrefixOf(c) = PrefixOf(o)
        /\ CheckboxOf(c) = (IF sut.cur.Done THEN "[x]" ELSE "[ ]")
        /\ sut.cur.Done => EndsWith(ContentOf(c), TodayStamp)
        /\ IsSubseq(body, ContentOf(o))
        /\ TextOf(body) = TextOf(ContentOf(o))
        /\ (~sut.cur.Done /\ WellStamped(o)) => ~HasStamp(c)
        /\ parseLine("f1", 1, c).Done = sut.cur.Done

\* a Done record with a stamp has been toggled twice
C9_Witness ==
  /\ op = "Toggle" /\ sut.n = 2
  /\ sut.orig.Done /\ HasStamp(sut.orig.RawLine)
  /\ sut.cur.Done /\ sut.cur.RawLine # sut.orig.RawLine

(***************************************************************************)
(* SpecUndo: pushUndo, popUndo and the stack clear of a hard refresh.      *)
(* sut.t is the time of the next push; the entry pushed at time t is of    *)
(* the t-th operation type in turn.                                        *)
(***************************************************************************)
MaxPushes == 53
MaxPops == 1
MaxClears == 1

TypeAt(t) ==
  CASE t % 3 = 0 -> OpToggle
    [] t % 3 = 1 -> OpDelete
    [] OTHER     -> OpPriorityChange

InitUndo ==
  /\ sut = [undoStack |-> <<>>, t |-> 1, pops |-> 0, clears |-> 0]
  /\ op = "init" /\ SysIdle

UndoPush ==
  /\ sut.t <= MaxPushes
  /\ sut' = [sut EXCEPT
       !.undoStack = pushUndo(@, UndoEntry(TypeAt(sut.t), "f1", 1, <<>>, 0, FALSE), sut.t),
       !.t = @ + 1]
  /\ op' = "pushUndo" /\ UNCHANGED sysVars

UndoPop ==
  /\ sut.pops < MaxPops
  /\ sut' = [sut EXCEPT !.undoStack = popUndo(@), !.pops = @ + 1]
  /\ op' = "popUndo" /\ UNCHANGED sysVars

\* key "r": m.undoStack = make([]UndoEntry, 0)
UndoClear ==
  /\ sut.clears < MaxClears
  /\ sut' = [sut EXCEPT !.undoStack = <<>>, !.clears = @ + 1]
  /\ op' = "clear" /\ UNCHANGED sysVars

NextUndo == UndoPush \/ UndoPop \/ UndoClear

SpecUndo == InitUndo /\ [][NextUndo]_vars

\* C1: the undo stack never holds more than maxUndoStackSize entries; a push
\* always succeeds and leaves the new entry on top; below it are the old
\* entries in their order, all of them when the stack was not full and all
\* but the oldest when it was full.
C1_UndoBound ==
  [][ /\ Len(sut'.undoStack) <= maxUndoStackSize
      /\ op' = "pushUndo" =>
           LET old == sut.undoStack
               new == sut'.undoStack
           IN  /\ new # <<>>
               /\ new[Len(new)].Timestamp = sut.t
               /\ new[Len(new)].Type = TypeAt(sut.t)
               /\ Len(old) < maxUndoStackSize => Take(new, Len(new) - 1) = old
               /\ Len(old) = maxUndoStackSize => Take(new, Len(new) - 1) = Tail(old)
      /\ op' = "popUndo" /\ sut.undoStack # <<>> =>
           sut'.undoStack = Take(sut.undoStack, Len(sut.undoStack) - 1)
    ]_vars

\* a push onto a full stack has evicted the oldest entry
C1_Witness ==
  /\ op = "pushUndo"
  /\ Len(sut.undoStack) = maxUndoStackSize
  /\ sut.undoStack[1].Timestamp > 1
  /\ sut.undoStack[maxUndoStackSize].Timestamp = sut.t - 1

(***************************************************************************)
(* SpecFilter: filterTasksWithRecent applied to one record.                *)
(***************************************************************************)
MaxFilters == 2

FilterFields == {"due", "scheduled", "done"}

FilterSet ==
  {[Field |-> f, Operator |-> o, Date |-> d, Dates |-> <<>>] :
      f \in FilterFields, o \in {"on", "before", "after"}, d \in {"D1", "today"}}
  \cup
  {[Field |-> f, Operator |-> "on", Date |-> "", Dates |-> <<"D1", "tomorrow">>] :
      f \in FilterFields}

FilterStacks ==
  {<<>>,
   <<UndoEntry(OpToggle, "f1", 1, <<>>, 0, FALSE)>>,
   <<UndoEntry(OpToggle, "f1", 2, <<>>, 0, FALSE)>>,
   <<UndoEntry(OpDelete, "f1", 1, <<"-", "[ ]">>, 0, FALSE)>>,
   <<UndoEntry(OpPriorityChange, "f1", 1, <<>>, PriorityNormal, FALSE),
     UndoEntry(OpToggle, "f2", 1, <<>>, 0, FALSE)>>}

FilterTask(done, due) ==
  [parseLine("f1", 1, <<"-", " ", "[ ]", " ", "a">>) EXCEPT !.Done = done, !.DueDate = due]

InitFilter ==
  /\ \E done \in BOOLEAN, due \in {NoDate, 1, 2, 3}, notDone \in BOOLEAN,
        filters \in SeqsUpTo(FilterSet, MaxFilters), stack \in FilterStacks :
       sut = [task      |-> FilterTask(done, due),
              query     |-> [Name |-> "", NotDone |-> notDone, GroupBy |-> "",
                             DateFilters |-> filters, SortBy |-> ""],
              undoStack |-> stack,
              filtered  |-> <<>>]
  /\ op = "init" /\ SysIdle

FilterStep ==
  /\ op = "init"
  /\ sut' = [sut EXCEPT
       !.filtered = filterTasksWithRecent(sut.undoStack, <<sut.task>>, sut.query)]
  /\ op' = "filter" /\ UNCHANGED sysVars

NextFilter == FilterStep

SpecFilter == InitFilter /\ [][NextFilter]_vars

\* the comparison a filter asks for, applied to a due date
DueSatisfies(due, filter) ==
  LET targets == IF filter.Dates # <<>>
                   THEN {resolveDate(filter.Dates[i]) : i \in 1..Len(filter.Dates)}
                   ELSE {resolveDate(filter.Date)}
  IN  \E target \in targets :
        \/ filter.Operator = "on" /\ due = target
        \/ filter.Operator = "before" /\ due < target
        \/ filter.Operator = "after" /\ due > target

RecentlyToggled(stack, task) ==
  \E e \in {stack[i] : i \in 1..Len(stack)} :
    e.Type = OpToggle /\ e.FilePath = task.FilePath /\ e.LineNumber = task.LineNumber

DoneOk(s) ==
  ~s.query.NotDone \/ ~s.task.Done \/ RecentlyToggled(s.undoStack, s.task)

FiltersOf(s) == {s.query.DateFilters[i] : i \in 1..Len(s.query.DateFilters)}

\* C10 as stated: retained iff the record has a DueDate matching every
\* DateFilter and passes the not-done rule; a record without a DueDate
\* fails any date filter.
C10_Original ==
  op = "filter" =>
    ((sut.filtered # <<>>) <=>
       /\ FiltersOf(sut) # {} =>
            /\ sut.task.DueDate # NoDate
            /\ \A f \in FiltersOf(sut) : f.Field = "due" => DueSatisfies(sut.task.DueDate, f)
       /\ DoneOk(sut))

\* C10 amended: retained iff the record's DueDate satisfies every DateFilter
\* whose Field is due (so a record without a DueDate fails any due filter,
\* recently toggled or not) and the query is not NotDone, or the record is
\* not Done, or it is recently toggled; filters on scheduled or done are
\* inert and a record without a DueDate passes them.
C10_Filter ==
  op = "filter" =>
    /\ (sut.filtered # <<>>) <=>
         /\ \A f \in FiltersOf(sut) :
              f.Field = "due" =>
                sut.task.DueDate # NoDate /\ DueSatisfies(sut.task.DueDate, f)
         /\ DoneOk(sut)
    /\ sut.filtered \in {<<>>, <<sut.task>>}

\* a recently toggled Done record without a DueDate is dropped by a due
\* filter of a not-done query
C10_Witness ==
  /\ op = "filter"
  /\ sut.task.Done /\ sut.query.NotDone /\ sut.task.DueDate = NoDate
  /\ RecentlyToggled(sut.undoStack, sut.task)
  /\ \E f \in FiltersOf(sut) : f.Field = "due"
  /\ sut.filtered = <<>>

(***************************************************************************)
(* SpecDebounce: one Debouncer, the Update loop calling Trigger and the    *)
(* timer goroutines.  sut.pc = "locked" between the two halves of Trigger. *)
(* A burst starts with a Trigger that finds no timer armed.                *)
(***************************************************************************)
MaxTriggers == 4
MaxDebounceTime == 5

InitDebounce ==
  /\ sut = [d |-> SetProgram(NewDebouncer), pc |-> "idle", now |-> 0,
            triggers |-> 0, bursts |-> 0, sent |-> 0, lastArm |-> 0]
  /\ op = "init" /\ SysIdle

DebTriggerStop ==
  /\ sut.pc = "idle"
  /\ sut.triggers < MaxTriggers
  /\ sut.now < MaxDebounceTime
  /\ sut' = [sut EXCEPT !.d = DebouncerStop(@), !.pc = "locked", !.triggers = @ + 1,
                        !.bursts = IF sut.d.timer = "armed" THEN @ ELSE @ + 1]
  /\ op' = "Trigger" /\ UNCHANGED sysVars

DebTriggerArm ==
  /\ sut.pc = "locked"
  /\ sut' = [sut EXCEPT !.d = DebouncerArm(@, sut.now), !.pc = "idle", !.lastArm = sut.now]
  /\ op' = "Armed" /\ UNCHANGED sysVars

DebTimerExpire ==
  /\ TimerDue(sut.d, sut.now)
  /\ sut' = [sut EXCEPT !.d = TimerExpire(@, sut.now)]
  /\ op' = "Expire" /\ UNCHANGED sysVars

DebCallback ==
  /\ sut.d.callbacks > 0
  /\ sut' = [sut EXCEPT !.d = CallbackDone(@), !.sent = @ + CallbackSends(sut.d)]
  /\ op' = "Send" /\ UNCHANGED sysVars

\* time passes; an armed timer expires no later than its deadline
DebTick ==
  /\ ~TimerDue(sut.d, sut.now)
  /\ sut.now < MaxDebounceTime \/ sut.d.timer = "armed" \/ sut.d.others # <<>>
  /\ sut' = [sut EXCEPT !.now = @ + 1]
  /\ op' = "Tick" /\ UNCHANGED sysVars

NextDebounce ==
  DebTriggerStop \/ DebTriggerArm \/ DebTimerExpire \/ DebCallback \/ DebTick

\* the Update loop finishes a call it has begun, the runtime fires due
\* timers and runs their goroutines, and time passes
FairDebounce ==
  /\ WF_vars(DebTriggerArm) /\ WF_vars(DebTimerExpire)
  /\ WF_vars(DebCallback) /\ WF_vars(DebTick)

SpecDebounce == InitDebounce /\ [][NextDebounce]_vars /\ FairDebounce

DebPending(s) ==
  s.d.callbacks + (IF s.d.timer = "armed" \/ s.pc = "locked" THEN 1 ELSE 0)

\* C2: every burst of Trigger calls, each made while the timer of the
\* previous one is still armed, produces exactly one DebouncedRefreshMsg: at
\* any time the messages sent, the callbacks running and the armed timer add
\* up to the number of bursts, the armed timer expires one debounce duration
\* after the last Trigger, and finally every burst has been answered.
C2_Debounce ==
  /\ [](/\ sut.sent + DebPending(sut) = sut.bursts
        /\ sut.d.timer = "armed" =>
             sut.d.deadline = sut.lastArm + DebounceTicks /\ sut.now <= sut.d.deadline
        /\ op = "Expire" => sut.now = sut.lastArm + DebounceTicks)
  /\ <>[](sut.sent = sut.bursts /\ DebPending(sut) = 0)

\* a burst of three Triggers has been answered by one message
C2_Witness ==
  /\ op = "Send"
  /\ sut.triggers >= 3 /\ sut.bursts = 1 /\ sut.sent = 1

(***************************************************************************)
(* SpecCache: one TaskCache over two files that other programs write,      *)
(* touch and remove.  sut.last[p] remembers the last successful Set of p   *)
(* that no Invalidate has followed: the mtime it recorded, its records and *)
(* whether the file has been written since.                                *)
(* Before the first Set of p it is NoSet, after an Invalidate Evicted.     *)
(***************************************************************************)
MaxCacheTime == 2

CacheRecords == {<<"r1">>, <<"r2">>}

NoSet == [valid |-> FALSE, evicted |-> FALSE]

\* an Invalidate has removed the entry and no Set has succeeded since
Evicted == [valid |-> FALSE, evicted |-> TRUE]

InitCache ==
  /\ sut = [files |-> NewTaskCache,
            fs    |-> [p \in Paths |-> [exists |-> TRUE, mtime |-> 0]],
            now   |-> 0,
            last  |-> [p \in Paths |-> NoSet],
            got   |-> [path |-> "", ok |-> FALSE, tasks |-> <<>>]]
  /\ op = "init" /\ SysIdle

CacheSetStep(p, tasks) ==
  /\ sut' = [sut EXCEPT
       !.files = cacheSet(@, sut.fs, p, tasks),
       !.last[p] = IF statErr(sut.fs, p) THEN @
                   ELSE [valid |-> TRUE, mtime |-> sut.fs[p].mtime, tasks |-> tasks,
                         written |-> FALSE]]
  /\ op' = "Set" /\ UNCHANGED sysVars

CacheGetStep(p) ==
  /\ sut' = [sut EXCEPT
       !.got = [path |-> p, ok |-> cacheGet(sut.files, sut.fs, p).ok,
                tasks |-> cacheGet(sut.files, sut.fs, p).tasks]]
  /\ op' = "Get" /\ UNCHANGED sysVars

CacheInvalidateStep(p) ==
  /\ sut' = [sut EXCEPT !.files = cacheInvalidate(@, p), !.last[p] = Evicted]
  /\ op' = "Invalidate" /\ UNCHANGED sysVars

\* another program writes or touches the file (the bytes play no part)
CacheFsWrite(p) ==
  /\ sut' = [sut EXCEPT
       !.fs[p] = [exists |-> TRUE, mtime |-> sut.now],
       !.last[p] = IF @.valid THEN [@ EXCEPT !.written = TRUE] ELSE @]
  /\ op' = "Write" /\ UNCHANGED sysVars

CacheFsRemove(p) ==
  /\ sut.fs[p].exists
  /\ sut' = [sut EXCEPT !.fs[p].exists = FALSE]
  /\ op' = "Remove" /\ UNCHANGED sysVars

CacheTick ==
  /\ sut.now < MaxCacheTime
  /\ sut' = [sut EXCEPT !.now = @ + 1]
  /\ op' = "Tick" /\ UNCHANGED sysVars

NextCache ==
  \/ \E p \in Paths, tasks \in CacheRecords : CacheSetStep(p, tasks)
  \/ \E p \in Paths : CacheGetStep(p)
  \/ \E p \in Paths : CacheInvalidateStep(p)
  \/ \E p \in Paths : CacheFsWrite(p)
  \/ \E p \in Paths : CacheFsRemove(p)
  \/ CacheTick

SpecCache == InitCache /\ [][NextCache]_vars

\* C3 as stated: after a successful Set, Get hits iff stat succeeds and the
\* mtime has not advanced past the recorded one, and any write after Set
\* makes the next Get a miss.
C3_Original ==
  (op = "Get" /\ sut.last[sut.got.path].valid) =>
    LET p == sut.got.path
    IN  /\ sut.got.ok <=> (sut.fs[p].exists /\ ~(sut.fs[p].mtime > sut.last[p].mtime))
        /\ sut.got.ok => sut.got.tasks = sut.last[p].tasks
        /\ sut.last[p].written => ~sut.got.ok

\* C3 amended: after a successful Set, Get hits with the records of that Set
\* iff stat succeeds and the mtime has not advanced past the recorded one; a
\* write after Set makes the next Get a miss when it advances the mtime,
\* whatever the bytes, and a write stamped with the recorded mtime leaves
\* the entry a hit.
C3_Cache ==
  (op = "Get" /\ sut.last[sut.got.path].valid) =>
    LET p == sut.got.path
    IN  /\ sut.got.ok <=> (sut.fs[p].exists /\ ~(sut.fs[p].mtime > sut.last[p].mtime))
        /\ sut.got.ok => sut.got.tasks = sut.last[p].tasks
        /\ (sut.last[p].written /\ sut.fs[p].mtime > sut.last[p].mtime) => ~sut.got.ok

\* a Get after Set and a later write that advanced the mtime has missed
C3_Witness ==
  /\ op = "Get"
  /\ sut.last[sut.got.path].valid /\ sut.last[sut.got.path].written
  /\ sut.fs[sut.got.path].exists
  /\ sut.fs[sut.got.path].mtime > sut.last[sut.got.path].mtime
  /\ ~sut.got.ok

\* C21: a Get of a path that Invalidate has removed, with no successful Set
\* since, is a miss whatever the file and its mtime are; an Invalidate leaves
\* no entry for one path and the entries of the other paths as they were.
C21_Invalidate ==
  [][ /\ (op' = "Get" /\ ~sut.last[sut'.got.path].valid) => ~sut'.got.ok
      /\ op' = "Invalidate" =>
            \E p \in Paths :
              /\ sut'.files[p] = NoEntry
              /\ \A q \in Paths \ {p} : sut'.files[q] = sut.files[q]
    ]_vars

\* a Get has missed a path that was evicted while its file is as the Set
\* found it, and the other path is still cached
C21_Witness ==
  /\ op = "Get" /\ ~sut.got.ok
  /\ sut.last[sut.got.path].evicted
  /\ sut.fs[sut.got.path].exists /\ sut.fs[sut.got.path].mtime = 0
  /\ \E q \in Paths \ {sut.got.path} :
       sut.files[q].cached /\ sut.last[q].valid

(***************************************************************************)
(* The running program.                                                    *)
(*                                                                         *)
(* Bounds: what the user and the environment may do in one run.            *)
(***************************************************************************)
\* commands of the user: key presses other than moving the cursor and opening
\* or leaving a dialog
MaxKeys == 2
\* writes by other programs
MaxExternal == 1
\* file writes of the program that fail
MaxFailures == 1
\* the clock stops the user and the environment at MaxTime
MaxTime == 2
\* Task objects alive at one time
MaxObjs == 12

(***************************************************************************)
(* Vault files.  lines is strings.Split(content, "\n"), never empty: the   *)
(* empty content splits into one empty line.                               *)
(***************************************************************************)
\* strings.Split(strings.Join(lines, "\n"), "\n")
SplitJoin(lines) == IF lines = <<>> THEN << <<>> >> ELSE lines

\* os.WriteFile to path+".tmp" and os.Rename over path; the clock of the file
\* system is finer than the time between two writes, so that every write
\* gives the file a later modification time
WriteFile(fs, path, lines) ==
  [fs EXCEPT ![path] = [exists |-> TRUE, mtime |-> @.mtime + 1,
                        lines |-> SplitJoin(lines)]]

InsertAt(lines, insertAt, line) ==
  Take(lines, insertAt) \o <<line>> \o Drop(lines, insertAt)

\* saveTask putting the RawLine before the line instead of in its place
saveTaskLines_insert(lines, task) ==
  IF task.LineNumber > 0 /\ task.LineNumber <= Len(lines)
    THEN InsertAt(lines, task.LineNumber - 1, task.RawLine)
    ELSE lines

\* saveTask: the lines it writes
saveTaskLines(lines, task) ==
  IF task.LineNumber > 0 /\ task.LineNumber <= Len(lines)
    THEN [lines EXCEPT ![task.LineNumber] = task.RawLine]
    ELSE lines

\* deleteTask taking LineNumber for an index that starts at 0
deleteTaskLines_zeroBased(lines, task) ==
  IF task.LineNumber > 0 /\ task.LineNumber <= Len(lines)
    THEN Take(lines, task.LineNumber) \o Drop(lines, task.LineNumber + 1)
    ELSE lines

\* deleteTask: the lines it writes
deleteTaskLines(lines, task) ==
  IF task.LineNumber > 0 /\ task.LineNumber <= Len(lines)
    THEN Take(lines, task.LineNumber - 1) \o Drop(lines, task.LineNumber)
    ELSE lines

\* restoreTaskLine: the lines it writes
restoreTaskLineLines(lines, lineNumber, line) ==
  LET i        == lineNumber - 1
      insertAt == IF i < 0 THEN 0 ELSE IF i > Len(lines) THEN Len(lines) ELSE i
  IN  InsertAt(lines, insertAt, line)

\* addTask: "- [ ] " + description
addTaskNewLine(description) == <<"-", " ", "[ ]", " ">> \o description

\* addTask: the lines it writes
addTaskLines(lines, refTask, description) ==
  LET insertAt == IF refTask.LineNumber > Len(lines) THEN Len(lines)
                  ELSE refTask.LineNumber
  IN  InsertAt(lines, insertAt, addTaskNewLine(description))

\* parseFile: one Task per line matching taskRe, numbered from 1
RECURSIVE parseFrom(_, _, _)
parseFrom(path, lines, lineNum) ==
  IF lineNum > Len(lines) THEN <<>>
  ELSE (IF taskReMatches(lines[lineNum])
          THEN <<parseLine(path, lineNum, lines[lineNum])>>
          ELSE <<>>) \o parseFrom(path, lines, lineNum + 1)

parseFile(path, lines) == parseFrom(path, lines, 1)

(***************************************************************************)
(* Task objects.  A *Task is an index of heap; 0 is nil.  An object no     *)
(* pointer refers to any more is collected.                                *)
(***************************************************************************)
ObjIds == 1..MaxObjs

NoTask ==
  [FilePath |-> "", LineNumber |-> 0, RawLine |-> <<>>, Done |-> FALSE,
   Description |-> <<>>, Modified |-> FALSE, DueDate |-> NoDate,
   Priority |-> PriorityNormal]

FreeIds(h) == {i \in ObjIds : h[i] = NoTask}

\* F(x), with x evaluated once
With(x, F(_)) == CHOOSE y \in {F(v) : v \in {x}} : TRUE

\* &Task{...}: the objects for a sequence of Task values, in order
RECURSIVE allocAll(_, _)
allocAll(h, tasks) ==
  IF tasks = <<>> THEN [heap |-> h, ids |-> <<>>]
  ELSE With(CHOOSE i \in FreeIds(h) : \A j \in FreeIds(h) : i <= j, LAMBDA id :
         With(allocAll([h EXCEPT ![id] = Head(tasks)], Tail(tasks)), LAMBDA rest :
           [heap |-> rest.heap, ids |-> <<id>> \o rest.ids]))

(***************************************************************************)
(* Profiles.  In single-profile mode the vault holds the file f1 and the   *)
(* editor is external; with tabs there are two profiles, each with its own *)
(* vault (f1 for the first, f2 for the second), cache, watcher and         *)
(* debouncer, the first with the inline editor, the second with the        *)
(* external one.                                                           *)
(***************************************************************************)
Tabs == {1, 2}

\* len(m.tabs) when tabs are enabled, one profile otherwise
NumTabs(tabsEnabled) == IF tabsEnabled THEN 2 ELSE 1

\* scanVault of the vault of a tab: its markdown files in walk order
scanVault(tabsEnabled, tab) ==
  IF tab = 1 THEN <<"f1">> ELSE <<"f2">>

\* the markdown files of the vaults of the profiles
VaultPaths(tabsEnabled) == IF tabsEnabled THEN Paths ELSE {"f1"}

\* the tab whose Watcher has registered the directory of path
WatcherOf(tabsEnabled, path) == IF path = "f1" THEN 1 ELSE 2

\* Profile.EditorMode
ProfileEditorMode(tabsEnabled, tab) ==
  IF tabsEnabled /\ tab = 1 THEN "inline" ELSE "external"

\* the one query of every profile: not done
TheQuery ==
  [Name |-> "", NotDone |-> TRUE, GroupBy |-> "", DateFilters |-> <<>>, SortBy |-> ""]

LineA == <<"-", " ", "[ ]", " ", "a">>
LineB == <<"-", " ", "[ ]", " ", "b">>
TextLine == <<"b">>

\* the vault when the program starts: f1 is "- [ ] a", f2 is "- [ ] a\n- [ ] b",
\* neither ends with a newline
InitialDisk ==
  [p \in Paths |-> [exists |-> TRUE, mtime |-> 0,
                    lines  |-> IF p = "f1" THEN <<LineA>> ELSE <<LineA, LineB>>]]

(***************************************************************************)
(* Handlers are functions of the world w, the record of the variables of   *)
(* the program.                                                            *)
(***************************************************************************)
World ==
  [m |-> m, heap |-> heap, disk |-> disk, caches |-> caches, watchers |-> watchers,
   debouncers |-> debouncers, ticks |-> ticks, editor |-> editor, now |-> now,
   env |-> env]

NoTime == -1

\* UndoEntry.Timestamp is written and never read: the program keeps one value
\* for it, so that two runs that differ only in it are one run
NoStamp == 0

\* env.preDelete when no Delete is waiting for its Undo
NoSnapshot == [path |-> "", lines |-> <<>>]

\* the pointers the program holds, in a fixed order: the caches, m.tasks, the
\* tabs, the dialogs, the prioritySaveMsg in flight by age
RECURSIVE tickTasks(_, _)
tickTasks(w, at) ==
  IF at > w.env.seq THEN <<>>
  ELSE (IF \E x \in w.ticks : x.at = at
          THEN <<(CHOOSE x \in w.ticks : x.at = at).task>>
          ELSE <<>>) \o tickTasks(w, at + 1)

cacheTasks(w, t, p) == IF w.caches[t][p].cached THEN w.caches[t][p].Tasks ELSE <<>>

Pointers(w) ==
  cacheTasks(w, 1, "f1") \o cacheTasks(w, 1, "f2")
  \o cacheTasks(w, 2, "f1") \o cacheTasks(w, 2, "f2")
  \o w.m.tasks \o w.m.tabs[1].Tasks \o w.m.tabs[2].Tasks
  \o <<w.m.deletingTask, w.m.editingTask, w.m.addingRef>>
  \o tickTasks(w, 1)

\* the objects of s, each once, in the order s first mentions them
RECURSIVE distinct(_, _)
distinct(s, seen) ==
  IF s = <<>> THEN <<>>
  ELSE IF Head(s) \in seen THEN distinct(Tail(s), seen)
  ELSE <<Head(s)>> \o distinct(Tail(s), seen \cup {Head(s)})

\* objects no pointer refers to are collected; the address of an object is
\* not observable, so the objects alive are renumbered in the order of
\* Pointers
collect(w) ==
  With(distinct(Pointers(w), {0}), LAMBDA live :
    LET at(id)   == IF id = 0 THEN 0 ELSE CHOOSE i \in 1..Len(live) : live[i] = id
        move(s)  == [i \in 1..Len(s) |-> at(s[i])]
        entry(e) == IF e.cached THEN [e EXCEPT !.Tasks = move(@)] ELSE e
    IN  [w EXCEPT
          !.heap = [i \in ObjIds |-> IF i <= Len(live) THEN w.heap[live[i]] ELSE NoTask],
          !.caches = [t \in Tabs |-> [p \in Paths |-> entry(w.caches[t][p])]],
          !.m.tasks = move(@),
          !.m.tabs = [t \in Tabs |-> [w.m.tabs[t] EXCEPT !.Tasks = move(@)]],
          !.m.deletingTask = at(@), !.m.editingTask = at(@), !.m.addingRef = at(@),
          !.ticks = {[x EXCEPT !.task = at(@)] : x \in w.ticks}])

\* clampCursor without the lower bound
clampCursor_noFloor(cursor, length) ==
  IF cursor < length - 1 THEN cursor ELSE length - 1

clampCursor(cursor, length) ==
  LET least == IF cursor < length - 1 THEN cursor ELSE length - 1
  IN  IF least > 0 THEN least ELSE 0

\* refreshWithCache, the loop over the files of the vault
RECURSIVE loadFiles(_, _, _)
loadFiles(w, files, allTasks) ==
  IF files = <<>> THEN [w |-> w, allTasks |-> allTasks]
  ELSE With(cacheGet(w.caches[w.m.activeTab], w.disk, Head(files)), LAMBDA hit :
         IF hit.ok THEN loadFiles(w, Tail(files), allTasks \o hit.tasks)
         ELSE With(allocAll(w.heap, parseFile(Head(files), w.disk[Head(files)].lines)),
                   LAMBDA new :
                loadFiles([w EXCEPT !.heap = new.heap,
                                    !.caches[w.m.activeTab] =
                                        cacheSet(@, w.disk, Head(files), new.ids)],
                          Tail(files), allTasks \o new.ids)))

\* refreshWithCache, after the loop: the sections of the one query, m.tasks,
\* clampCursor, the tab
showTasks(w, allTasks) ==
  With(SelectSeq(allTasks,
                 LAMBDA id : filterKeep(w.m.undoStack, w.heap[id], TheQuery)),
       LAMBDA tasks :
    With(clampCursor(w.m.cursor, Len(tasks)), LAMBDA cursor :
      [w EXCEPT !.m.tasks = tasks, !.m.cursor = cursor,
                !.m.tabs = IF w.m.tabsEnabled
                             THEN [@ EXCEPT ![w.m.activeTab] =
                                     [Tasks |-> tasks, Cursor |-> cursor]]
                             ELSE @]))

\* a refresh that writes the first file of the vault back as it read it
refreshWithCache_rewrite(w) ==
  With(loadFiles(w, scanVault(w.m.tabsEnabled, w.m.activeTab), <<>>), LAMBDA loaded :
    showTasks([loaded.w EXCEPT !.disk =
                 WriteFile(@, Head(scanVault(w.m.tabsEnabled, w.m.activeTab)),
                           @[Head(scanVault(w.m.tabsEnabled, w.m.activeTab))].lines)],
              loaded.allTasks))

\* refreshWithCache with inline queries (m.queryFile == "")
refreshWithCache(w) ==
  With(loadFiles(w, scanVault(w.m.tabsEnabled, w.m.activeTab), <<>>), LAMBDA loaded :
    showTasks(loaded.w, loaded.allTasks))

\* the model the constructors build, before any vault is loaded
newModel(tabsEnabled, editorMode) ==
  [tabsEnabled |-> tabsEnabled, activeTab |-> 1, tasks |-> <<>>, cursor |-> 0,
   err |-> FALSE, editorMode |-> editorMode,
   editing |-> FALSE, editingTask |-> 0,
   deleting |-> FALSE, deletingTask |-> 0,
   adding |-> FALSE, addingRef |-> 0,
   selfModifiedFiles |-> [p \in Paths |-> NoTime],
   undoStack |-> <<>>,
   prioritySavePending |-> {},
   tabs |-> [t \in Tabs |-> [Tasks |-> <<>>, Cursor |-> 0]]]

\* the vault of every tab loaded through its cache, the first tab shown, one
\* WatchCmd reader per watcher
StartWorld(tabsEnabled) ==
  LET w0 == [m |-> newModel(tabsEnabled, ProfileEditorMode(tabsEnabled, 1)),
             heap |-> [i \in ObjIds |-> NoTask],
             disk |-> InitialDisk,
             caches |-> [t \in Tabs |-> NewTaskCache],
             watchers |-> [t \in Tabs |->
                             [events |-> <<>>,
                              readers |-> IF t <= NumTabs(tabsEnabled) THEN 1 ELSE 0]],
             debouncers |-> [t \in Tabs |-> SetProgram(NewDebouncer)],
             ticks |-> {},
             editor |-> "idle",
             now |-> 0,
             env |-> [keys |-> 0, external |-> 0, failures |-> 0, seq |-> 0,
                      wrote |-> "", refreshed |-> FALSE, dirty |-> {},
                      preDelete |-> NoSnapshot]]
  IN  IF tabsEnabled
        THEN With(refreshWithCache([refreshWithCache(w0) EXCEPT !.m.activeTab = 2]),
                  LAMBDA second :
               [second EXCEPT !.m.activeTab = 1,
                              !.m.tasks = second.m.tabs[1].Tasks,
                              !.m.cursor = second.m.tabs[1].Cursor])
        ELSE refreshWithCache(w0)

\* the next values of the variables of the program are those of w
Commit(w, label) ==
  \E c \in {collect(w)} :
      /\ m' = c.m /\ heap' = c.heap /\ disk' = c.disk /\ caches' = c.caches
      /\ watchers' = c.watchers /\ debouncers' = c.debouncers /\ ticks' = c.ticks
      /\ editor' = c.editor /\ now' = c.now /\ env' = c.env
      /\ op' = label
      /\ UNCHANGED sut

Init ==
  /\ \E tabsEnabled \in BOOLEAN :
       \E w \in {StartWorld(tabsEnabled)} :
         /\ m = w.m /\ heap = w.heap /\ disk = w.disk /\ caches = w.caches
         /\ watchers = w.watchers /\ debouncers = w.debouncers /\ ticks = w.ticks
         /\ editor = w.editor /\ now = w.now /\ env = w.env
  /\ sut = 0
  /\ op = "init"

(***************************************************************************)
(* Writes of the program.  A write of a watched markdown file makes        *)
(* fsnotify queue one event for it (the event of the .tmp file is filtered *)
(* out by WatchCmd).                                                       *)
(***************************************************************************)
\* the self-suppression window of the FileChangeMsg handler (500ms), in ticks
SelfWindow == 1

\* prioritySaveDebounce (500ms), in ticks
prioritySaveDebounce == 1

notify(w, path) ==
  [w EXCEPT !.watchers[WatcherOf(w.m.tabsEnabled, path)].events = Append(@, path)]

forget(w, path) ==
  IF w.env.preDelete.path = path THEN [w EXCEPT !.env.preDelete = NoSnapshot] ELSE w

\* the program replaces the content of path
writeLines(w, path, lines) ==
  LET w1 == [w EXCEPT !.disk = WriteFile(@, path, lines), !.env.wrote = path]
  IN  notify(forget(w1, path), path)

\* saveTask(task), without error
saveTask(w, task) ==
  writeLines(w, task.FilePath, saveTaskLines(w.disk[task.FilePath].lines, task))

\* deleteTask(task), without error
deleteTask(w, task) ==
  writeLines(w, task.FilePath, deleteTaskLines(w.disk[task.FilePath].lines, task))

\* restoreTaskLine(filePath, lineNumber, line), without error
restoreTaskLine(w, filePath, lineNumber, line) ==
  writeLines(w, filePath, restoreTaskLineLines(w.disk[filePath].lines, lineNumber, line))

\* addTask(refTask, description), without error
addTask(w, refTask, description) ==
  writeLines(w, refTask.FilePath,
             addTaskLines(w.disk[refTask.FilePath].lines, refTask, description))

\* a write that returns an error leaves the file as it was
failed(w) == [w EXCEPT !.env.failures = @ + 1]

recordSelf(w, path) == [w EXCEPT !.m.selfModifiedFiles[path] = w.now]

refresh(w) == [refreshWithCache(w) EXCEPT !.env.refreshed = TRUE,
                                          !.env.dirty = @ \ {w.m.activeTab}]

(***************************************************************************)
(* Handlers of the keys.  id is the *Task under the cursor; fail tells     *)
(* whether the write of the handler returns an error.                      *)
(***************************************************************************)
toggleAndSave(w, id, fail) ==
  LET task    == w.heap[id]
      entry   == UndoEntry(OpToggle, task.FilePath, task.LineNumber, <<>>, 0, task.Done)
      toggled == Toggle(task)
      w1      == [w EXCEPT !.m.undoStack = pushUndo(@, entry, NoStamp),
                           !.heap[id] = toggled]
  IN  IF fail
        THEN failed([w1 EXCEPT !.m.err = TRUE, !.m.undoStack = popUndo(@)])
        ELSE recordSelf(saveTask(w1, toggled), task.FilePath)

taskKey(task) == <<task.FilePath, task.LineNumber>>

\* schedulePrioritySave: at is a reading of time.Now() no other reading equals
schedulePrioritySave(w, id) ==
  LET key == taskKey(w.heap[id])
      at  == w.env.seq + 1
  IN  [w EXCEPT !.env.seq = at,
                !.m.prioritySavePending =
                    {x \in @ : x.key # key} \cup {[key |-> key, at |-> at]},
                !.ticks = @ \cup {[key |-> key, at |-> at, task |-> id,
                                   due |-> w.now + prioritySaveDebounce]}]

priorityEntry(task) ==
  UndoEntry(OpPriorityChange, task.FilePath, task.LineNumber, <<>>, task.Priority, FALSE)

setPriorityDebounced(w, id, priority) ==
  LET task == w.heap[id]
      w1   == IF task.Priority # priority
                THEN [w EXCEPT !.m.undoStack = pushUndo(@, priorityEntry(task), NoStamp)]
                ELSE w
  IN  schedulePrioritySave([w1 EXCEPT !.heap[id] = SetPriority(task, priority)], id)

cyclePriorityUpDebounced(w, id) ==
  LET task == w.heap[id]
      w1   == [w EXCEPT !.m.undoStack = pushUndo(@, priorityEntry(task), NoStamp),
                        !.heap[id] = CyclePriorityUp(task)]
  IN  schedulePrioritySave(w1, id)

cyclePriorityDownDebounced(w, id) ==
  LET task == w.heap[id]
      w1   == [w EXCEPT !.m.undoStack = pushUndo(@, priorityEntry(task), NoStamp),
                        !.heap[id] = CyclePriorityDown(task)]
  IN  schedulePrioritySave(w1, id)

\* the index in m.tasks of the first task at the place of the entry, 0 if none
findTask(w, entry) ==
  LET hits == {i \in 1..Len(w.m.tasks) :
                 /\ w.heap[w.m.tasks[i]].FilePath = entry.FilePath
                 /\ w.heap[w.m.tasks[i]].LineNumber = entry.LineNumber}
  IN  IF hits = {} THEN 0 ELSE CHOOSE i \in hits : \A j \in hits : i <= j

undoToggle(w, entry, fail) ==
  LET i == findTask(w, entry)
  IN  IF i = 0 THEN w
      ELSE LET id      == w.m.tasks[i]
               toggled == Toggle(w.heap[id])
               w1      == [w EXCEPT !.heap[id] = toggled]
           IN  IF fail THEN failed([w1 EXCEPT !.m.err = TRUE])
               ELSE recordSelf(saveTask(w1, toggled), toggled.FilePath)

undoDelete(w, entry, fail) ==
  refresh(IF fail THEN failed([w EXCEPT !.m.err = TRUE])
          ELSE recordSelf(restoreTaskLine(w, entry.FilePath, entry.LineNumber,
                                          entry.DeletedLine),
                          entry.FilePath))

undoPriorityChange(w, entry, fail) ==
  LET i == findTask(w, entry)
  IN  IF i = 0 THEN w
      ELSE LET id   == w.m.tasks[i]
               task == SetPriority(w.heap[id], entry.PreviousPriority)
               w1   == [w EXCEPT !.heap[id] = task]
           IN  IF fail THEN failed([w1 EXCEPT !.m.err = TRUE])
               ELSE recordSelf(saveTask(w1, task), task.FilePath)

undoLastOperation(w, fail) ==
  IF w.m.undoStack = <<>> THEN w
  ELSE LET entry == w.m.undoStack[Len(w.m.undoStack)]
           w1    == [w EXCEPT !.m.undoStack = popUndo(@)]
       IN  CASE entry.Type = OpToggle         -> undoToggle(w1, entry, fail)
             [] entry.Type = OpDelete         -> undoDelete(w1, entry, fail)
             [] entry.Type = OpPriorityChange -> undoPriorityChange(w1, entry, fail)

\* the deleting dialog, keys "y", "Y", "enter", "d", "D"
confirmDelete(w, fail) ==
  LET id == w.m.deletingTask
      w3 == IF id # 0
              THEN LET task  == w.heap[id]
                       entry == UndoEntry(OpDelete, task.FilePath, task.LineNumber,
                                          task.RawLine, 0, FALSE)
                       w1    == [w EXCEPT !.m.undoStack = pushUndo(@, entry, NoStamp)]
                   IN  IF fail
                         THEN failed([w1 EXCEPT !.m.err = TRUE,
                                                !.m.undoStack = popUndo(@)])
                         ELSE LET w2 == recordSelf(deleteTask(w1, task), task.FilePath)
                              IN  [w2 EXCEPT !.env.preDelete =
                                     [path  |-> task.FilePath,
                                      lines |-> w.disk[task.FilePath].lines]]
              ELSE w
  IN  refresh([w3 EXCEPT !.m.deleting = FALSE, !.m.deletingTask = 0])

\* the editing dialog, key "enter", with newValue the text of the input
confirmEdit(w, newValue, fail) ==
  LET id == w.m.editingTask
      w2 == IF id # 0 /\ newValue # w.heap[id].Description
              THEN LET edited == rebuildRawLine([w.heap[id] EXCEPT
                                                   !.Description = newValue,
                                                   !.Modified = TRUE])
                       w1     == [w EXCEPT !.heap[id] = edited]
                   IN  IF fail THEN failed([w1 EXCEPT !.m.err = TRUE])
                       ELSE recordSelf(saveTask(w1, edited), edited.FilePath)
              ELSE w
  IN  refresh([w2 EXCEPT !.m.editing = FALSE, !.m.editingTask = 0])

\* the adding dialog, key "enter", with input the text of the input
confirmAdd(w, input, fail) ==
  LET newValue == TrimSpace(input)
      id       == w.m.addingRef
      w1       == IF id # 0 /\ newValue # <<>>
                    THEN IF fail THEN failed([w EXCEPT !.m.err = TRUE])
                         ELSE recordSelf(addTask(w, w.heap[id], newValue),
                                         w.heap[id].FilePath)
                    ELSE w
  IN  refresh([w1 EXCEPT !.m.adding = FALSE, !.m.addingRef = 0])

useInlineEditor(w) == w.m.editorMode = "inline"

\* openInEditor: tea.ExecProcess runs the editor
openInEditor(w) == [w EXCEPT !.editor = "running"]

startEdit(w, id) ==
  IF useInlineEditor(w)
    THEN [w EXCEPT !.m.editing = TRUE, !.m.editingTask = id]
    ELSE openInEditor(w)

\* openNewTaskInEditor: addEmptyTask, then the editor on the new line
openNewTaskInEditor(w, id, fail) ==
  IF fail THEN failed([w EXCEPT !.editor = "failed"])
  ELSE openInEditor(addTask(w, w.heap[id], <<>>))

startAdd(w, id, fail) ==
  IF useInlineEditor(w)
    THEN [w EXCEPT !.m.adding = TRUE, !.m.addingRef = id]
    ELSE openNewTaskInEditor(w, id, fail)

switchTab(w, newTab) ==
  IF ~w.m.tabsEnabled \/ newTab < 1 \/ newTab > NumTabs(w.m.tabsEnabled)
     \/ newTab = w.m.activeTab
    THEN w
    ELSE LET saved  == [w.m.tabs EXCEPT ![w.m.activeTab] =
                          [Tasks |-> w.m.tasks, Cursor |-> w.m.cursor]]
             tab    == saved[newTab]
             cursor == IF tab.Cursor >= Len(tab.Tasks)
                         THEN (IF Len(tab.Tasks) > 0 THEN Len(tab.Tasks) - 1 ELSE 0)
                         ELSE tab.Cursor
         IN  [w EXCEPT !.m.tabs = saved, !.m.activeTab = newTab,
                       !.m.tasks = tab.Tasks, !.m.cursor = cursor,
                       !.m.editorMode = ProfileEditorMode(TRUE, newTab)]

(***************************************************************************)
(* Handlers of the messages.                                               *)
(***************************************************************************)
\* the handler leaving the entry of selfModifiedFiles in place when it skips
handleFileChange_keep(w, path) ==
  LET t   == w.m.selfModifiedFiles[path]
      tab == w.m.activeTab
      w1  == IF t # NoTime /\ w.now - t < SelfWindow
               THEN w
               ELSE [w EXCEPT !.caches[tab] = cacheInvalidate(@, path),
                              !.debouncers[tab] = Trigger(@, w.now),
                              !.env.dirty = @ \cup {WatcherOf(w.m.tabsEnabled, path)}]
  IN  [w1 EXCEPT !.watchers[tab].readers = @ + 1]

\* FileChangeMsg{Path: path}: m.cache, m.debouncer and m.watcher are those of
\* the active tab
handleFileChange(w, path) ==
  LET t   == w.m.selfModifiedFiles[path]
      tab == w.m.activeTab
      w1  == IF t # NoTime /\ w.now - t < SelfWindow
               THEN [w EXCEPT !.m.selfModifiedFiles[path] = NoTime]
               ELSE [w EXCEPT !.caches[tab] = cacheInvalidate(@, path),
                              !.debouncers[tab] = Trigger(@, w.now),
                              !.env.dirty = @ \cup {WatcherOf(w.m.tabsEnabled, path)}]
  IN  [w1 EXCEPT !.watchers[tab].readers = @ + 1]

\* the handler without the test of m.prioritySavePending
handlePrioritySave_always(w, x, fail) ==
  LET w1 == [w EXCEPT !.ticks = @ \ {x}]
      w2 == [w1 EXCEPT !.m.prioritySavePending = {y \in @ : y.key # x.key}]
  IN  IF fail THEN failed([w2 EXCEPT !.m.err = TRUE])
      ELSE recordSelf(saveTask(w2, w2.heap[x.task]), w2.heap[x.task].FilePath)

\* prioritySaveMsg x
handlePrioritySave(w, x, fail) ==
  LET w1 == [w EXCEPT !.ticks = @ \ {x}]
  IN  IF [key |-> x.key, at |-> x.at] \notin w.m.prioritySavePending THEN w1
      ELSE LET w2 == [w1 EXCEPT !.m.prioritySavePending = {y \in @ : y.key # x.key}]
           IN  IF fail THEN failed([w2 EXCEPT !.m.err = TRUE])
               ELSE recordSelf(saveTask(w2, w2.heap[x.task]), w2.heap[x.task].FilePath)

\* editorFinishedMsg{err: err}
handleEditorFinished(w, err) ==
  refresh([w EXCEPT !.editor = "idle", !.m.err = IF err THEN TRUE ELSE @])

(***************************************************************************)
(* Steps of the program: Update for a key or a message, the timers of the  *)
(* runtime, the editor process, other programs writing to the vault, and   *)
(* the clock.                                                              *)
(***************************************************************************)
\* the world at the start of a step
Begin == [World EXCEPT !.env.wrote = "", !.env.refreshed = FALSE]

\* Update runs: tea.ExecProcess is not blocking the event loop
UiReady == editor # "running"

\* a message Update can handle now
MessageReady ==
  /\ UiReady
  /\ \/ \E tab \in Tabs :
          \/ watchers[tab].readers > 0 /\ watchers[tab].events # <<>>
          \/ debouncers[tab].callbacks > 0
     \/ \E x \in ticks : now >= x.due
     \/ editor \in {"finished", "failed"}

\* the user presses a key: the messages that were ready have been handled
MayAct == env.keys < MaxKeys /\ now < MaxTime /\ ~MessageReady

\* a key arrives and no dialog has the keys
MainKeys == MayAct /\ UiReady /\ ~m.editing /\ ~m.deleting /\ ~m.adding

FailChoices == IF env.failures < MaxFailures THEN BOOLEAN ELSE {FALSE}

\* the world when Update starts on a key
Key == [Begin EXCEPT !.env.keys = @ + 1]

\* m.tasks[m.cursor]
Selected == m.tasks[m.cursor + 1]

\* keys "up", "k"
KeyUp ==
  /\ MainKeys /\ m.cursor > 0
  /\ Commit([Begin EXCEPT !.m.cursor = @ - 1], "up")

\* keys "down", "j"
KeyDown ==
  /\ MainKeys /\ m.cursor < Len(m.tasks) - 1
  /\ Commit([Begin EXCEPT !.m.cursor = @ + 1], "down")

\* keys "enter", " ", "x"
KeyToggle ==
  /\ MainKeys /\ Len(m.tasks) > 0
  /\ \E fail \in FailChoices :
       Commit(toggleAndSave(Key, Selected, fail), "toggle")

\* key "r"
KeyRefresh ==
  /\ MainKeys
  /\ Commit(refresh([Key EXCEPT !.m.undoStack = <<>>]), "hardRefresh")

\* key "u"
KeyUndo ==
  /\ MainKeys
  /\ \E fail \in IF m.undoStack = <<>> THEN {FALSE} ELSE FailChoices :
       Commit(undoLastOperation(IF m.undoStack = <<>> THEN Begin ELSE Key, fail),
              "undo")

\* key "e"
KeyEdit ==
  /\ MainKeys /\ Len(m.tasks) > 0 /\ editor = "idle"
  /\ Commit(startEdit(IF useInlineEditor(Begin) THEN Begin ELSE Key, Selected),
            "startEdit")

\* key "d"
KeyDelete ==
  /\ MainKeys /\ Len(m.tasks) > 0
  /\ Commit([Begin EXCEPT !.m.deleting = TRUE, !.m.deletingTask = Selected],
            "startDelete")

\* keys "a", "n"
KeyAdd ==
  /\ MainKeys /\ Len(m.tasks) > 0 /\ editor = "idle"
  /\ \E fail \in FailChoices :
       Commit(startAdd(IF useInlineEditor(Begin) THEN Begin ELSE Key, Selected, fail),
              "startAdd")

\* key "+"
KeyPriorityUp ==
  /\ MainKeys /\ Len(m.tasks) > 0
  /\ Commit(cyclePriorityUpDebounced(Key, Selected), "priorityUp")

\* key "-"
KeyPriorityDown ==
  /\ MainKeys /\ Len(m.tasks) > 0
  /\ Commit(cyclePriorityDownDebounced(Key, Selected), "priorityDown")

\* key "!"
KeyPriorityHighest ==
  /\ MainKeys /\ Len(m.tasks) > 0
  /\ Commit(setPriorityDebounced(Key, Selected, PriorityHighest),
            "priorityHighest")

\* key "0"
KeyPriorityNormal ==
  /\ MainKeys /\ Len(m.tasks) > 0
  /\ Commit(setPriorityDebounced(Key, Selected, PriorityNormal),
            "priorityNormal")

\* keys "tab", "shift+tab": with two tabs both go to the other tab
KeyTab ==
  /\ MainKeys /\ m.tabsEnabled
  /\ Commit(switchTab(Key, (m.activeTab % NumTabs(m.tabsEnabled)) + 1), "tab")

\* what the user may have typed in the editing dialog
EditValues == {<<"a">>, <<"b">>}

\* what the user may have typed in the adding dialog
AddValues == {<<" ">>, <<"b">>}

EditEnter ==
  /\ MayAct /\ UiReady /\ m.editing
  /\ \E newValue \in EditValues, fail \in FailChoices :
       Commit(confirmEdit(Key, newValue, fail), "edit")

\* keys "esc", "ctrl+["
EditEsc ==
  /\ MayAct /\ UiReady /\ m.editing
  /\ Commit([Begin EXCEPT !.m.editing = FALSE, !.m.editingTask = 0], "editEsc")

DeleteConfirm ==
  /\ MayAct /\ UiReady /\ ~m.editing /\ m.deleting
  /\ \E fail \in FailChoices : Commit(confirmDelete(Key, fail), "delete")

\* keys "n", "N", "q", "esc", "ctrl+["
DeleteCancel ==
  /\ MayAct /\ UiReady /\ ~m.editing /\ m.deleting
  /\ Commit([Begin EXCEPT !.m.deleting = FALSE, !.m.deletingTask = 0], "deleteCancel")

AddEnter ==
  /\ MayAct /\ UiReady /\ ~m.editing /\ ~m.deleting /\ m.adding
  /\ \E input \in AddValues, fail \in FailChoices :
       Commit(confirmAdd(Key, input, fail), "add")

AddEsc ==
  /\ MayAct /\ UiReady /\ ~m.editing /\ ~m.deleting /\ m.adding
  /\ Commit([Begin EXCEPT !.m.adding = FALSE, !.m.addingRef = 0], "addEsc")

\* a WatchCmd reader of the watcher of tab takes the next event and Update
\* handles its FileChangeMsg
FileChange(tab) ==
  /\ UiReady /\ watchers[tab].readers > 0 /\ watchers[tab].events # <<>>
  /\ Commit(handleFileChange([Begin EXCEPT !.watchers[tab].events = Tail(@),
                                           !.watchers[tab].readers = @ - 1],
                             Head(watchers[tab].events)),
            "fileChange")

\* the runtime finds a timer of the debouncer of tab expired
TimerFires(tab) ==
  /\ TimerDue(debouncers[tab], now)
  /\ Commit([Begin EXCEPT !.debouncers[tab] = TimerExpire(@, now)], "timer")

\* the function of a timer sends DebouncedRefreshMsg and Update handles it
DebouncedRefresh(tab) ==
  /\ UiReady /\ debouncers[tab].callbacks > 0
  /\ LET w == [Begin EXCEPT !.debouncers[tab] = CallbackDone(@)]
     IN  Commit(IF CallbackSends(debouncers[tab]) = 1 THEN refresh(w) ELSE w,
                "debouncedRefresh")

\* a tea.Tick of schedulePrioritySave delivers its prioritySaveMsg
PrioritySave ==
  /\ UiReady
  /\ \E x \in ticks, fail \in FailChoices :
       /\ now >= x.due
       /\ Commit(handlePrioritySave(Begin, x, fail), "prioritySave")

\* the editor process exits
EditorExit ==
  /\ editor = "running"
  /\ Commit([Begin EXCEPT !.editor = "finished"], "editorExit")

EditorFinished ==
  /\ editor \in {"finished", "failed"}
  /\ Commit(handleEditorFinished(Begin, editor = "failed"), "editorFinished")

\* another program (the external editor among them) rewrites a vault file
\* with a line of text put before the others
ExternalWrite(path) ==
  /\ path \in VaultPaths(m.tabsEnabled)
  /\ env.external < MaxExternal /\ now < MaxTime
  /\ LET w1 == [Begin EXCEPT !.env.external = @ + 1,
                             !.disk = WriteFile(@, path, <<TextLine>> \o disk[path].lines)]
     IN  Commit(notify(forget(w1, path), path), "externalWrite")

\* a timer that has not yet expired
TimerAhead ==
  \/ \E tab \in Tabs :
       \/ debouncers[tab].timer = "armed"
       \/ debouncers[tab].others # <<>>
  \/ \E x \in ticks : x.due > now

\* 500ms pass; before they do, a debounce timer that is due expires and the
\* event loop, unless the editor blocks it, handles the messages that are ready
Tick ==
  /\ \A tab \in Tabs : ~TimerDue(debouncers[tab], now)
  /\ ~MessageReady
  /\ now < MaxTime \/ TimerAhead
  /\ Commit([Begin EXCEPT !.now = @ + 1], "tick")

Next ==
  \/ KeyUp \/ KeyDown \/ KeyToggle \/ KeyRefresh \/ KeyUndo
  \/ KeyEdit \/ KeyDelete \/ KeyAdd
  \/ KeyPriorityUp \/ KeyPriorityDown \/ KeyPriorityHighest \/ KeyPriorityNormal
  \/ KeyTab
  \/ EditEnter \/ EditEsc \/ DeleteConfirm \/ DeleteCancel \/ AddEnter \/ AddEsc
  \/ \E tab \in Tabs : FileChange(tab)
  \/ \E tab \in Tabs : TimerFires(tab)
  \/ \E tab \in Tabs : DebouncedRefresh(tab)
  \/ PrioritySave
  \/ EditorExit \/ EditorFinished
  \/ \E path \in Paths : ExternalWrite(path)
  \/ Tick

Spec == Init /\ [][Next]_vars

(***************************************************************************)
(* The program when no other program writes to the vault.                  *)
(***************************************************************************)
NextQuiet ==
  \/ KeyUp \/ KeyDown \/ KeyToggle \/ KeyRefresh \/ KeyUndo
  \/ KeyEdit \/ KeyDelete \/ KeyAdd
  \/ KeyPriorityUp \/ KeyPriorityDown \/ KeyPriorityHighest \/ KeyPriorityNormal
  \/ KeyTab
  \/ EditEnter \/ EditEsc \/ DeleteConfirm \/ DeleteCancel \/ AddEnter \/ AddEsc
  \/ \E tab \in Tabs : FileChange(tab)
  \/ \E tab \in Tabs : TimerFires(tab)
  \/ \E tab \in Tabs : DebouncedRefresh(tab)
  \/ PrioritySave
  \/ EditorExit \/ EditorFinished
  \/ Tick

\* the steps of NextQuiet in which Update handles a DebouncedRefreshMsg, a
\* prioritySaveMsg or an editorFinishedMsg, told by the guard of the action,
\* by the label only that action gives the step and by what the action does
\* to the debouncer, to the ticks or to the editor
DebouncedRefreshStep ==
  \E tab \in Tabs :
    /\ UiReady /\ debouncers[tab].callbacks > 0
    /\ op' = "debouncedRefresh"
    /\ debouncers' = [debouncers EXCEPT ![tab] = CallbackDone(@)]

PrioritySaveStep ==
  \E x \in ticks :
    /\ UiReady /\ now >= x.due
    /\ op' = "prioritySave"
    /\ ticks' = ticks \ {x}

EditorFinishedStep ==
  /\ editor \in {"finished", "failed"}
  /\ op' = "editorFinished"
  /\ editor' = "idle"

\* the clock advances, the runtime runs the timers, the event loop handles the
\* messages that are ready, and the editor the user opened is closed again
FairQuiet ==
  /\ WF_vars(Tick)
  /\ WF_vars(\E tab \in Tabs : FileChange(tab))
  /\ WF_vars(\E tab \in Tabs : TimerFires(tab))
  /\ WF_<<op, ticks>>(PrioritySaveStep)
  /\ WF_vars(EditorExit)
  /\ WF_<<op, debouncers>>(DebouncedRefreshStep)
  /\ WF_<<op, editor>>(EditorFinishedStep)

SpecQuiet == Init /\ [][NextQuiet]_vars /\ FairQuiet

\* no event, timer, message or save is pending
Quiescent ==
  /\ editor = "idle"
  /\ ticks = {}
  /\ m.prioritySavePending = {}
  /\ \A tab \in Tabs :
       /\ watchers[tab].events = <<>>
       /\ debouncers[tab].timer # "armed"
       /\ debouncers[tab].others = <<>>
       /\ debouncers[tab].callbacks = 0

(***************************************************************************)
(* Self-write suppression, quiescence, coherence of the view, undo.        *)
(***************************************************************************)
\* the path of the watch event that the step handles, "" when it handles none
handledPath ==
  IF \E tab \in Tabs : /\ watchers[tab].events # <<>>
                        /\ watchers'[tab].events = Tail(watchers[tab].events)
  THEN Head(watchers[CHOOSE tab \in Tabs :
                       /\ watchers[tab].events # <<>>
                       /\ watchers'[tab].events = Tail(watchers[tab].events)].events)
  ELSE ""

\* C4: every step in which the program writes a file records (path, now) in
\* selfModifiedFiles, and a step that handles the watch event of a path
\* recorded less than 500ms ago changes neither a cache nor a debouncer.
C4_Original ==
  [][ /\ env'.wrote # "" => m'.selfModifiedFiles[env'.wrote] = now'
      /\ ( /\ op' = "fileChange"
           /\ handledPath # ""
           /\ m.selfModifiedFiles[handledPath] # NoTime
           /\ now - m.selfModifiedFiles[handledPath] < SelfWindow )
         => caches' = caches /\ debouncers' = debouncers ]_vars

\* C5: when no other program writes to the vault, a refresh writes no file,
\* and after the user's last command the program comes to rest: from some
\* point on no event, timer, message or save is pending and no refresh runs.
C5_Quiescence ==
  /\ [](refreshWithCache(World).disk = disk)
  /\ <>[]Quiescent
  /\ <>[][~env'.refreshed]_vars

\* the program wrote a file, the watch event of the write caused a debounced
\* refresh, and the program is at rest
C5_Witness ==
  /\ op = "debouncedRefresh"
  /\ env.refreshed
  /\ disk # InitialDisk
  /\ Quiescent

\* C6: once the events of the changes to the vault have been handled and the
\* debounced refreshes have run, every tab whose vault had a change that was
\* not suppressed has been refreshed.
C6_Original ==
  ( /\ editor = "idle"
    /\ \A tab \in Tabs :
         /\ watchers[tab].events = <<>>
         /\ debouncers[tab].timer # "armed"
         /\ debouncers[tab].others = <<>>
         /\ debouncers[tab].callbacks = 0 )
  => env.dirty = {}

\* what a record says about its line
lineOf(t) ==
  [FilePath |-> t.FilePath, LineNumber |-> t.LineNumber,
   RawLine |-> t.RawLine, Done |-> t.Done]

\* the lines of a sequence of records
linesOf(ts) == [i \in 1..Len(ts) |-> lineOf(ts[i])]

\* the records the view shows for a file
viewOf(path) ==
  linesOf(SelectSeq([i \in 1..Len(m.tasks) |-> heap[m.tasks[i]]],
                    LAMBDA t : t.FilePath = path))

\* the records extraction and the filter yield from the file as it is on disk
extractedOf(path) ==
  linesOf(SelectSeq(parseFile(path, disk[path].lines),
                    LAMBDA t : filterKeep(m.undoStack, t, TheQuery)))

\* C7: when no other program has written to the vault and no write has
\* failed, right after a refresh the view shows, for every file of the vault
\* of the active tab, the records extracted from the file as it is on disk.
C7_Original ==
  (env.refreshed /\ env.external = 0 /\ env.failures = 0) =>
    \A i \in 1..Len(scanVault(m.tabsEnabled, m.activeTab)) :
      viewOf(scanVault(m.tabsEnabled, m.activeTab)[i])
        = extractedOf(scanVault(m.tabsEnabled, m.activeTab)[i])

\* C8: when no other program has written to the vault, an Undo that pops the
\* entry of the last Delete and writes the file leaves the file with the
\* lines it had just before the Delete.
C8_Original ==
  [][ ( /\ op' = "undo"
        /\ env.external = 0
        /\ env.preDelete.path # ""
        /\ m.undoStack # <<>>
        /\ m.undoStack[Len(m.undoStack)].Type = OpDelete
        /\ m.undoStack[Len(m.undoStack)].FilePath = env.preDelete.path
        /\ env'.wrote = env.preDelete.path )
      => disk'[env.preDelete.path].lines = env.preDelete.lines ]_vars

(***************************************************************************)
(* Visibility of the records that were toggled.                            *)
(***************************************************************************)
\* the files of the vault the view shows
activeFiles ==
  {scanVault(m.tabsEnabled, m.activeTab)[i] :
     i \in 1..Len(scanVault(m.tabsEnabled, m.activeTab))}

\* the view shows a record of path with this line number
shownAt(path, lineNumber) ==
  \E i \in 1..Len(m.tasks) :
    /\ heap[m.tasks[i]].FilePath = path
    /\ heap[m.tasks[i]].LineNumber = lineNumber

\* the view shows a record of path with this line
shownLine(path, rawLine) ==
  \E i \in 1..Len(m.tasks) :
    /\ heap[m.tasks[i]].FilePath = path
    /\ heap[m.tasks[i]].RawLine = rawLine

keysOf(type) ==
  {<<m.undoStack[i].FilePath, m.undoStack[i].LineNumber>> :
     i \in {j \in 1..Len(m.undoStack) : m.undoStack[j].Type = type}}

\* the Task objects the program holds
liveTasks == {i \in ObjIds : heap[i] # NoTask}

\* C12: in every state, a record the program holds is recently toggled exactly
\* when the undo stack holds a Toggle entry with its FilePath and LineNumber;
\* the Delete and PriorityChange entries do not count.
C12_Recent ==
  \A id \in liveTasks :
    isRecentlyToggled(m.undoStack, heap[id])
      <=> <<heap[id].FilePath, heap[id].LineNumber>> \in keysOf(OpToggle)

\* the view shows a record that is not recently toggled although a Delete or
\* PriorityChange entry of the stack has its FilePath and LineNumber, and a
\* record that is recently toggled
C12_Witness ==
  /\ \E i \in 1..Len(m.tasks) :
       /\ <<heap[m.tasks[i]].FilePath, heap[m.tasks[i]].LineNumber>>
            \in keysOf(OpDelete) \cup keysOf(OpPriorityChange)
       /\ ~isRecentlyToggled(m.undoStack, heap[m.tasks[i]])
  /\ \E i \in 1..Len(m.tasks) : isRecentlyToggled(m.undoStack, heap[m.tasks[i]])

(* Failed writes of the direct mutations. *)
\* the write of the step failed
writeFailed == env'.failures > env.failures

\* C13 (as stated): when the write of a Toggle, of a confirmed Delete or of a
\* priority save fails, m.err is set and the undo stack is the one from before
\* the operation: the stack before the step for Toggle and Delete, and for a
\* priority save whose key was the first command of the session, the empty stack.
C13_Original ==
  [][ (writeFailed /\ op' \in {"toggle", "delete", "prioritySave"}) =>
        /\ m'.err
        /\ op' \in {"toggle", "delete"} => m'.undoStack = m.undoStack
        /\ (op' = "prioritySave" /\ env.keys = 1) => m'.undoStack = <<>>
    ]_vars

(* The key "u". *)
\* the entry Undo takes
topEntry == m.undoStack[Len(m.undoStack)]

\* after the step the view holds a record at the place of the entry that
\* satisfies P and is the line of the file at that place
undone(entry, P(_)) ==
  /\ env'.wrote = entry.FilePath
  /\ \E i \in 1..Len(m'.tasks) :
       /\ heap'[m'.tasks[i]].FilePath = entry.FilePath
       /\ heap'[m'.tasks[i]].LineNumber = entry.LineNumber
       /\ P(heap'[m'.tasks[i]])
       /\ entry.LineNumber <= Len(disk'[entry.FilePath].lines)
       /\ disk'[entry.FilePath].lines[entry.LineNumber] = heap'[m'.tasks[i]].RawLine

\* C14 (as stated): Undo on an empty stack changes nothing and writes no file;
\* otherwise it pops the most recent entry and, when its write succeeds, applies
\* the inverse: for Toggle the record at (path, line) has the Done it had before
\* and is on disk, for Delete the line is re-inserted by restoreTaskLine, for
\* PriorityChange the record at (path, line) has PreviousPriority and is on disk.
C14_Original ==
  [][ op' = "undo" =>
        IF m.undoStack = <<>>
          THEN /\ m' = m /\ heap' = heap /\ disk' = disk /\ caches' = caches
               /\ ticks' = ticks /\ env'.wrote = ""
          ELSE /\ m'.undoStack = SubSeq(m.undoStack, 1, Len(m.undoStack) - 1)
               /\ ~writeFailed =>
                    CASE topEntry.Type = OpToggle ->
                           undone(topEntry, LAMBDA t : t.Done = topEntry.WasDone)
                      [] topEntry.Type = OpDelete ->
                           /\ env'.wrote = topEntry.FilePath
                           /\ disk'[topEntry.FilePath].lines =
                                restoreTaskLineLines(disk[topEntry.FilePath].lines,
                                                     topEntry.LineNumber,
                                                     topEntry.DeletedLine)
                      [] topEntry.Type = OpPriorityChange ->
                           undone(topEntry,
                                  LAMBDA t : t.Priority = topEntry.PreviousPriority)
    ]_vars

(***************************************************************************)
(* The program when no other program writes to the vault and the keys      *)
(* "tab" and "shift+tab" are not counted in the MaxKeys commands.          *)
(***************************************************************************)
KeyTabFree ==
  /\ MainKeys /\ m.tabsEnabled
  /\ Commit(switchTab(Begin, (m.activeTab % NumTabs(m.tabsEnabled)) + 1), "tab")

NextTabs ==
  \/ KeyUp \/ KeyDown \/ KeyToggle \/ KeyRefresh \/ KeyUndo
  \/ KeyDelete \/ DeleteConfirm \/ DeleteCancel
  \/ KeyPriorityUp \/ KeyPriorityDown \/ KeyPriorityHighest \/ KeyPriorityNormal
  \/ KeyTabFree
  \/ \E tab \in Tabs : FileChange(tab)
  \/ \E tab \in Tabs : TimerFires(tab)
  \/ \E tab \in Tabs : DebouncedRefresh(tab)
  \/ PrioritySave
  \/ Tick

SpecTabs == Init /\ [][NextTabs]_vars

(* Writes after a structural edit. *)
\* the record of the prioritySaveMsg the step handles
savedTask == heap[(CHOOSE x \in ticks \ ticks' : TRUE).task]

\* the record is the one a re-extraction of its file yields at its line, with
\* its priority set
freshAt(lines, t) ==
  /\ t.LineNumber <= Len(lines)
  /\ taskReMatches(lines[t.LineNumber])
  /\ SetPriority(parseLine(t.FilePath, t.LineNumber, lines[t.LineNumber]),
                 t.Priority).RawLine = t.RawLine

\* C15 (as stated): when no other program writes, a priority save that writes a
\* file a Delete has changed writes a record of the file as it is now: the line
\* it replaces is the record's own line, not the line that has the record's
\* LineNumber of before the Delete.
C15_Original ==
  [][ ( /\ op' = "prioritySave"
        /\ env'.wrote # ""
        /\ env.external = 0
        /\ env.preDelete.path = env'.wrote )
      => freshAt(disk[env'.wrote].lines, savedTask)
    ]_vars

(***************************************************************************)
(* Sorting and grouping of the filtered records (query.go) and the         *)
(* sections refreshWithCache builds from them.  A record here keeps the    *)
(* fields sorting and grouping read; FilePath is relative to the vault and *)
(* (FilePath, LineNumber) tells the records apart as the *Task pointers do.*)
(***************************************************************************)
\* the markdown files of the vault in the order filepath.Walk visits them
GroupFiles == <<"a/x.md", "b.md", "c/x.md", "d.md">>

\* filepath.Dir(relPath(vaultPath, task.FilePath))
Dir(path) ==
  CASE path = "a/x.md" -> "a"
    [] path = "c/x.md" -> "c"
    [] OTHER           -> "."

\* filepath.Base(task.FilePath)
Base(path) ==
  CASE path \in {"a/x.md", "c/x.md"} -> "x.md"
    [] OTHER                         -> path

\* the comparison by due date without the three tests for nil
taskLess_nilFirst(sortBy, a, b) ==
  CASE sortBy = "priority" -> a.Priority < b.Priority
    [] sortBy = "due"      -> a.DueDate < b.DueDate
    [] OTHER               -> FALSE

\* the comparison function of slices.SortStableFunc is negative
taskLess(sortBy, a, b) ==
  CASE sortBy = "priority" -> a.Priority < b.Priority
    [] sortBy = "due"      -> /\ a.DueDate # NoDate
                              /\ b.DueDate = NoDate \/ a.DueDate < b.DueDate
    [] OTHER               -> FALSE

\* a stable sort that puts a record before the records equal to it
RECURSIVE insertTask_first(_, _, _)
insertTask_first(sorted, t, sortBy) ==
  IF sorted = <<>> THEN <<t>>
  ELSE IF ~taskLess(sortBy, Head(sorted), t) THEN <<t>> \o sorted
       ELSE <<Head(sorted)>> \o insertTask_first(Tail(sorted), t, sortBy)

\* slices.SortStableFunc, one record at a time: t goes before the first
\* record that is greater, after the records equal to it
RECURSIVE insertTask(_, _, _)
insertTask(sorted, t, sortBy) ==
  IF sorted = <<>> THEN <<t>>
  ELSE IF taskLess(sortBy, t, Head(sorted)) THEN <<t>> \o sorted
       ELSE <<Head(sorted)>> \o insertTask(Tail(sorted), t, sortBy)

RECURSIVE sortStable(_, _, _)
sortStable(sorted, tasks, sortBy) ==
  IF tasks = <<>> THEN sorted
  ELSE sortStable(insertTask(sorted, Head(tasks), sortBy), Tail(tasks), sortBy)

sortTasks(tasks, sortBy) ==
  IF sortBy = "" THEN tasks ELSE sortStable(<<>>, tasks, sortBy)

\* groupTasks: the key of a record
groupKey(groupBy, task) ==
  CASE groupBy = "folder"   -> IF Dir(task.FilePath) = "." THEN "/"
                               ELSE Dir(task.FilePath)
    [] groupBy = "filename" -> Base(task.FilePath)
    [] OTHER                -> ""

\* the keys with the newest first
RECURSIVE groupKeys_newestFirst(_, _, _)
groupKeys_newestFirst(keys, tasks, groupBy) ==
  IF tasks = <<>> THEN keys
  ELSE groupKeys_newestFirst(
         IF \E i \in 1..Len(keys) : keys[i] = groupKey(groupBy, Head(tasks))
           THEN keys
           ELSE <<groupKey(groupBy, Head(tasks))>> \o keys,
         Tail(tasks), groupBy)

\* OrderedMap.Keys: the keys in the order of their first Set
RECURSIVE groupKeys(_, _, _)
groupKeys(keys, tasks, groupBy) ==
  IF tasks = <<>> THEN keys
  ELSE groupKeys(IF \E i \in 1..Len(keys) : keys[i] = groupKey(groupBy, Head(tasks))
                   THEN keys
                   ELSE Append(keys, groupKey(groupBy, Head(tasks))),
                 Tail(tasks), groupBy)

\* groupTasks that leaves the one group of an ungrouped query unsorted
groupTasks_unsorted(tasks, groupBy, sortBy) ==
  IF groupBy = "" THEN <<[Name |-> "", Tasks |-> tasks]>>
  ELSE [i \in 1..Len(groupKeys(<<>>, tasks, groupBy)) |->
          [Name  |-> groupKeys(<<>>, tasks, groupBy)[i],
           Tasks |-> sortTasks(SelectSeq(tasks, LAMBDA t :
                                 groupKey(groupBy, t) =
                                   groupKeys(<<>>, tasks, groupBy)[i]),
                               sortBy)]]

groupTasks(tasks, groupBy, sortBy) ==
  IF groupBy = "" THEN <<[Name |-> "", Tasks |-> sortTasks(tasks, sortBy)]>>
  ELSE [i \in 1..Len(groupKeys(<<>>, tasks, groupBy)) |->
          [Name  |-> groupKeys(<<>>, tasks, groupBy)[i],
           Tasks |-> sortTasks(SelectSeq(tasks, LAMBDA t :
                                 groupKey(groupBy, t) =
                                   groupKeys(<<>>, tasks, groupBy)[i]),
                               sortBy)]]

\* refreshWithCache: the QuerySection of a query
QuerySection(filtered, query) ==
  [Query  |-> query,
   Groups |-> groupTasks(filtered, query.GroupBy, query.SortBy),
   Tasks  |-> filtered]

\* refreshWithCache: the tasks of the groups of a section, in order (m.tasks)
RECURSIVE flatten(_)
flatten(groups) ==
  IF groups = <<>> THEN <<>> ELSE Head(groups).Tasks \o flatten(Tail(groups))

\* the priorities and due dates of the records of the component specification
GroupPriorities == {PriorityHighest, PriorityNormal, PriorityLowest}
GroupDates == {NoDate, 1}
GroupBys == {"", "folder", "filename"}
SortBys == {"", "priority", "due", "name"}

\* what the filter may keep of a file: nothing, or its record
GroupTaskChoices(path) ==
  {<<>>} \cup {<<[FilePath |-> path, LineNumber |-> 1, Priority |-> p, DueDate |-> d]>> :
                 p \in GroupPriorities, d \in GroupDates}

NoSection == [Query |-> [GroupBy |-> "", SortBy |-> ""], Groups |-> <<>>, Tasks |-> <<>>]

InitGroup ==
  /\ \E t1 \in GroupTaskChoices(GroupFiles[1]), t2 \in GroupTaskChoices(GroupFiles[2]),
        t3 \in GroupTaskChoices(GroupFiles[3]), t4 \in GroupTaskChoices(GroupFiles[4]) :
       sut = [filtered |-> t1 \o t2 \o t3 \o t4, evaluated |-> FALSE,
              section |-> NoSection]
  /\ op = "init"
  /\ SysIdle

\* a refresh builds the section of the query the query file holds now
GroupStep ==
  /\ \E groupBy \in GroupBys, sortBy \in SortBys :
       sut' = [sut EXCEPT !.evaluated = TRUE,
                          !.section = QuerySection(sut.filtered,
                                        [GroupBy |-> groupBy, SortBy |-> sortBy])]
  /\ op' = "groupTasks"
  /\ UNCHANGED sysVars

NextGroup == GroupStep

SpecGroup == InitGroup /\ [][NextGroup]_vars

\* the place of a record in a list
placeIn(tasks, t) == CHOOSE i \in 1..Len(tasks) : tasks[i] = t

\* the same records, each once
sameRecords(s, t) ==
  /\ Len(s) = Len(t)
  /\ {s[i] : i \in 1..Len(s)} = {t[i] : i \in 1..Len(t)}

\* out holds the records of in, ordered by sortBy, those that compare equal in
\* the order of in
stablySorted(out, in, sortBy) ==
  /\ sameRecords(out, in)
  /\ \A i, j \in 1..Len(out) :
       i < j =>
         /\ ~taskLess(sortBy, out[j], out[i])
         /\ ~taskLess(sortBy, out[i], out[j])
              => placeIn(in, out[i]) < placeIn(in, out[j])

\* C16 (as stated): a query without GroupBy yields one group, named "", with
\* the filtered records in their original order, whatever its SortBy.
C16_Original ==
  (sut.evaluated /\ sut.section.Query.GroupBy = "") =>
    /\ Len(sut.section.Groups) = 1
    /\ sut.section.Groups[1].Name = ""
    /\ sut.section.Groups[1].Tasks = sut.filtered

\* C16 (amended): a query without GroupBy yields one group, named "", with all
\* the filtered records: in their original order when the query has no SortBy,
\* stably sorted by the SortBy field otherwise.
C16_Ungrouped ==
  (sut.evaluated /\ sut.section.Query.GroupBy = "") =>
    /\ Len(sut.section.Groups) = 1
    /\ sut.section.Groups[1].Name = ""
    /\ sut.section.Query.SortBy = "" => sut.section.Groups[1].Tasks = sut.filtered
    /\ stablySorted(sut.section.Groups[1].Tasks, sut.filtered, sut.section.Query.SortBy)

\* an ungrouped query with a SortBy whose group is not in the original order
C16_Witness ==
  /\ op = "groupTasks"
  /\ sut.section.Query.GroupBy = ""
  /\ sut.section.Query.SortBy = "due"
  /\ Len(sut.filtered) = 4
  /\ sut.section.Groups[1].Tasks # sut.filtered

\* C17: the Tasks of a section are, element for element, the
\* concatenation of the Tasks of its groups in group order, for every GroupBy
\* and SortBy.
C17_Original ==
  sut.evaluated => sut.section.Tasks = flatten(sut.section.Groups)

\* C18: with SortBy priority the records of every group are in ascending
\* Priority (PriorityHighest first), and two records of a group with the same
\* Priority are in the order they have in the filtered input.
C18_PrioritySort ==
  (sut.evaluated /\ sut.section.Query.SortBy = "priority") =>
    \A g \in 1..Len(sut.section.Groups) :
      \A i, j \in 1..Len(sut.section.Groups[g].Tasks) :
        i < j =>
          /\ sut.section.Groups[g].Tasks[i].Priority
               <= sut.section.Groups[g].Tasks[j].Priority
          /\ sut.section.Groups[g].Tasks[i].Priority
               = sut.section.Groups[g].Tasks[j].Priority
               => placeIn(sut.filtered, sut.section.Groups[g].Tasks[i])
                    < placeIn(sut.filtered, sut.section.Groups[g].Tasks[j])

\* a group sorted by priority in which a record has moved before two records
\* of equal priority
C18_Witness ==
  /\ op = "groupTasks"
  /\ sut.section.Query.SortBy = "priority"
  /\ \E g \in 1..Len(sut.section.Groups) :
       /\ Len(sut.section.Groups[g].Tasks) >= 3
       /\ sut.section.Groups[g].Tasks[1] = sut.filtered[Len(sut.filtered)]
       /\ sut.section.Groups[g].Tasks[2].Priority = sut.section.Groups[g].Tasks[3].Priority
       /\ sut.section.Groups[g].Tasks[1].Priority < sut.section.Groups[g].Tasks[2].Priority

(***************************************************************************)
(* SpecPriority: Task.SetPriority, CyclePriorityUp and CyclePriorityDown   *)
(* applied to an extracted record.  A record addTask has written is        *)
(* extracted from "- [ ] " and its description.                            *)
(***************************************************************************)
MaxPriorityContent == 3
MaxPriorityCalls == 3

PriorityAlphabet == {" ", "a", "P1", "P5", "DUE", "D1"}

PriorityLines ==
  {<<"-", " ", c>> \o s : c \in Checkboxes,
                          s \in SeqsUpTo(PriorityAlphabet, MaxPriorityContent)}

\* the arguments of SetPriority: the levels, one below and one above
PriorityArgs == (PriorityHighest - 1) .. (PriorityLowest + 1)

InitPriority ==
  /\ \E line \in PriorityLines :
       sut = [prev |-> parseLine("f1", 1, line),
              cur  |-> parseLine("f1", 1, line),
              arg  |-> PriorityNormal,
              n    |-> 0]
  /\ op = "init" /\ SysIdle

SetPriorityStep ==
  /\ sut.n < MaxPriorityCalls
  /\ \E p \in PriorityArgs :
       sut' = [prev |-> sut.cur, cur |-> SetPriority(sut.cur, p), arg |-> p,
               n |-> sut.n + 1]
  /\ op' = "SetPriority" /\ UNCHANGED sysVars

CyclePriorityUpStep ==
  /\ sut.n < MaxPriorityCalls
  /\ sut' = [prev |-> sut.cur, cur |-> CyclePriorityUp(sut.cur),
             arg |-> sut.cur.Priority - 1, n |-> sut.n + 1]
  /\ op' = "CyclePriorityUp" /\ UNCHANGED sysVars

CyclePriorityDownStep ==
  /\ sut.n < MaxPriorityCalls
  /\ sut' = [prev |-> sut.cur, cur |-> CyclePriorityDown(sut.cur),
             arg |-> sut.cur.Priority + 1, n |-> sut.n + 1]
  /\ op' = "CyclePriorityDown" /\ UNCHANGED sysVars

NextPriority == SetPriorityStep \/ CyclePriorityUpStep \/ CyclePriorityDownStep

SpecPriority == InitPriority /\ [][NextPriority]_vars

\* C19: after any sequence of SetPriority, CyclePriorityUp and CyclePriorityDown
\* calls on an extracted record its Priority is one of PriorityHighest (1) ..
\* PriorityLowest (6); CyclePriorityUp at PriorityHighest and CyclePriorityDown
\* at PriorityLowest leave Priority as it was.
C19_PriorityRange ==
  /\ sut.cur.Priority \in PriorityHighest..PriorityLowest
  /\ (op = "CyclePriorityUp" /\ sut.prev.Priority = PriorityHighest)
       => sut.cur.Priority = PriorityHighest
  /\ (op = "CyclePriorityDown" /\ sut.prev.Priority = PriorityLowest)
       => sut.cur.Priority = PriorityLowest

\* a record at PriorityLowest after SetPriority with an argument above the
\* levels, cycled down once more
C19_Witness ==
  /\ op = "CyclePriorityDown"
  /\ sut.n = 2
  /\ sut.arg = PriorityLowest + 1
  /\ sut.prev.Priority = PriorityLowest
  /\ sut.cur.Priority = PriorityLowest

\* C20 (as stated): after SetPriority(p) with p one of the levels, the rebuilt
\* RawLine is a task line whose extraction has Priority p and the Done and
\* DueDate the record had before the call.
C20_Original ==
  (op = "SetPriority" /\ sut.arg \in PriorityHighest..PriorityLowest) =>
    /\ taskReMatches(sut.cur.RawLine)
    /\ parseLine("f1", 1, sut.cur.RawLine).Priority = sut.arg
    /\ parseLine("f1", 1, sut.cur.RawLine).Done = sut.prev.Done
    /\ parseLine("f1", 1, sut.cur.RawLine).DueDate = sut.prev.DueDate

(***************************************************************************)
(* SpecWrite: one write of a Mutator (saveTask, deleteTask,                *)
(* restoreTaskLine, addTask) to the file f1, step by step, while another   *)
(* program reads f1.  sut.fs holds f1 and f1.tmp; os.WriteFile creates or  *)
(* truncates f1.tmp and writes the content piece by piece (a line here),   *)
(* os.Rename replaces f1 by f1.tmp in one step.  sut.old is the content of *)
(* f1 when the Mutator reads it, sut.new the content it writes, sut.seen   *)
(* what the reader saw last.                                               *)
(***************************************************************************)
WriteFiles == {<<LineA>>, <<LineA, LineB>>, <<TextLine, LineA, <<>>>>}

\* the LineNumber of the record handed to the Mutator, within the file or not
WriteLineNumbers == 1..4

\* the record of a line of the file, toggled by the program
WriteTask(n) == Toggle(parseLine("f1", n, LineA))

NoFile == [exists |-> FALSE, lines |-> <<>>]

\* os.WriteFile writing into the file itself
writeTemp_inPlace(fs, tempPath, lines, n) ==
  [fs EXCEPT !["f1"] = [exists |-> TRUE, lines |-> Take(lines, n)]]

\* os.WriteFile(tempPath, ...) when n lines of the content have been written
writeTemp(fs, tempPath, lines, n) ==
  [fs EXCEPT ![tempPath] = [exists |-> TRUE, lines |-> Take(lines, n)]]

\* os.Rename(tempPath, path)
rename(fs, tempPath, path) ==
  [fs EXCEPT ![path] = fs[tempPath], ![tempPath] = NoFile]

InitWrite ==
  /\ \E lines \in WriteFiles :
       sut = [fs   |-> [f \in {"f1", "f1.tmp"} |->
                          IF f = "f1" THEN [exists |-> TRUE, lines |-> lines]
                          ELSE NoFile],
              old  |-> lines, new |-> lines, seen |-> lines,
              kind |-> "", n |-> 0, pc |-> "idle", err |-> FALSE]
  /\ op = "init" /\ SysIdle

\* the Mutator reads the file, builds the lines and os.WriteFile opens f1.tmp
WriteOpen(kind, n, lines) ==
  /\ sut.pc = "idle"
  /\ sut' = [sut EXCEPT !.fs = writeTemp(@, "f1.tmp", SplitJoin(lines), 0),
                        !.new = SplitJoin(lines), !.kind = kind, !.n = n,
                        !.pc = "writing"]
  /\ op' = kind /\ UNCHANGED sysVars

WriteStart ==
  \E n \in WriteLineNumbers :
    \/ WriteOpen("saveTask", n, saveTaskLines(sut.old, WriteTask(n)))
    \/ WriteOpen("deleteTask", n, deleteTaskLines(sut.old, WriteTask(n)))
    \/ WriteOpen("restoreTaskLine", n, restoreTaskLineLines(sut.old, n - 1, LineB))
    \/ WriteOpen("addTask", n, addTaskLines(sut.old, WriteTask(n), <<"b">>))

\* os.ReadFile returns an error
ReadFails ==
  /\ sut.pc = "idle"
  /\ sut' = [sut EXCEPT !.pc = "failed", !.err = TRUE]
  /\ op' = "readFails" /\ UNCHANGED sysVars

\* os.WriteFile writes the next piece
WriteTempStep ==
  /\ sut.pc = "writing" /\ Len(sut.fs["f1.tmp"].lines) < Len(sut.new)
  /\ sut' = [sut EXCEPT !.fs = writeTemp(@, "f1.tmp", sut.new,
                                         Len(sut.fs["f1.tmp"].lines) + 1)]
  /\ op' = "write" /\ UNCHANGED sysVars

\* os.WriteFile returns an error: the Mutator returns it
WriteTempFails ==
  /\ sut.pc = "writing"
  /\ sut' = [sut EXCEPT !.pc = "failed", !.err = TRUE]
  /\ op' = "writeFails" /\ UNCHANGED sysVars

\* os.WriteFile has returned nil
TempWritten == sut.pc = "writing" /\ sut.fs["f1.tmp"] = [exists |-> TRUE, lines |-> sut.new]

RenameStep ==
  /\ TempWritten
  /\ sut' = [sut EXCEPT !.fs = rename(@, "f1.tmp", "f1"), !.pc = "done"]
  /\ op' = "rename" /\ UNCHANGED sysVars

\* os.Rename returns an error: the Mutator returns it
RenameFails ==
  /\ TempWritten
  /\ sut' = [sut EXCEPT !.pc = "failed", !.err = TRUE]
  /\ op' = "renameFails" /\ UNCHANGED sysVars

\* the other program reads f1
ReaderReads ==
  /\ sut.seen # sut.fs["f1"].lines \/ op # "read"
  /\ sut' = [sut EXCEPT !.seen = sut.fs["f1"].lines]
  /\ op' = "read" /\ UNCHANGED sysVars

NextWrite ==
  \/ WriteStart \/ ReadFails \/ WriteTempStep \/ WriteTempFails
  \/ RenameStep \/ RenameFails \/ ReaderReads

SpecWrite == InitWrite /\ [][NextWrite]_vars

\* C22: what a reader of the file sees, at any moment of a Mutator's write, is
\* the complete old content or the complete new content; when the write of the
\* temp file or the rename fails, the file has its old content and the Mutator
\* returns the error.
C22_Atomic ==
  /\ sut.fs["f1"].exists
  /\ sut.fs["f1"].lines \in {sut.old, sut.new}
  /\ sut.seen \in {sut.old, sut.new}
  /\ sut.pc = "failed" => sut.err /\ sut.fs["f1"].lines = sut.old
  /\ sut.pc = "done" => ~sut.err /\ sut.fs["f1"].lines = sut.new
  /\ sut.pc = "writing" => sut.fs["f1"].lines = sut.old

\* the reader reads while the temp file holds a part of a new content that
\* differs from the old one
C22_Witness ==
  /\ op = "read"
  /\ sut.pc = "writing"
  /\ sut.new # sut.old
  /\ Len(sut.fs["f1.tmp"].lines) > 0
  /\ Len(sut.fs["f1.tmp"].lines) < Len(sut.new)
  /\ sut.seen = sut.old

\* C27: saveTask of a record whose LineNumber is within the file replaces that
\* line by the record's RawLine; the file has as many lines as before and
\* every other line is as it was.
C27_SaveFrame ==
  (sut.pc = "done" /\ sut.kind = "saveTask" /\ sut.n <= Len(sut.old)) =>
    /\ Len(sut.fs["f1"].lines) = Len(sut.old)
    /\ sut.fs["f1"].lines[sut.n] = WriteTask(sut.n).RawLine
    /\ \A i \in 1..Len(sut.old) : i # sut.n => sut.fs["f1"].lines[i] = sut.old[i]

\* saveTask has replaced the second line of a file of three lines
C27_Witness ==
  /\ op = "rename" /\ sut.kind = "saveTask"
  /\ sut.n = 2 /\ Len(sut.old) = 3
  /\ sut.fs["f1"].lines # sut.old

(***************************************************************************)
(* SpecLoop: the goroutines of the running program, one statement a step.  *)
(* The Update loop takes the messages one at a time and runs the handler   *)
(* of each to its end; the input reader, the watcher command and the       *)
(* function of the Debouncer's timer run beside it and send messages.      *)
(* One record of one file: sut.task its Done in m.tasks, sut.disk its Done *)
(* in the file, sut.cache the entry of the TaskCache.                      *)
(***************************************************************************)
MaxLoopKeys == 2
MaxLoopEvents == 2
MaxLoopTime == 3

NoCache == [cached |-> FALSE, Done |-> FALSE]

\* the function of the timer refreshing the view itself
programSend_refresh(s) ==
  [s EXCEPT !.task = s.disk, !.cache = [cached |-> TRUE, Done |-> s.disk]]

\* if d.program != nil { d.program.Send(DebouncedRefreshMsg{}) }
programSend(s) ==
  IF CallbackSends(s.d) = 1 THEN [s EXCEPT !.q = Append(@, "DebouncedRefreshMsg")] ELSE s

InitLoop ==
  /\ \E d \in {NewDebouncer, SetProgram(NewDebouncer)}, done \in BOOLEAN :
       sut = [q |-> <<>>, pc |-> "idle", d |-> d, now |-> 0,
              task |-> done, disk |-> done, cache |-> [cached |-> TRUE, Done |-> done],
              local |-> done, undoStack |-> <<>>, keys |-> 0, events |-> 0]
  /\ op = "init" /\ SysIdle

\* the input reader sends the key " "
LoopKey ==
  /\ sut.keys < MaxLoopKeys
  /\ sut' = [sut EXCEPT !.q = Append(@, "KeyMsg"), !.keys = @ + 1]
  /\ op' = "input" /\ UNCHANGED sysVars

\* another program writes the file and WatchCmd returns the event
LoopEvent ==
  /\ sut.events < MaxLoopEvents
  /\ sut' = [sut EXCEPT !.q = Append(@, "FileChangeMsg"), !.disk = ~@, !.events = @ + 1]
  /\ op' = "watch" /\ UNCHANGED sysVars

LoopTakes(msg) == sut.pc = "idle" /\ sut.q # <<>> /\ Head(sut.q) = msg

\* toggleAndSave: m.pushUndo(...)
LoopPushUndo ==
  /\ LoopTakes("KeyMsg")
  /\ sut' = [sut EXCEPT !.q = Tail(@), !.undoStack = Append(@, sut.task), !.pc = "Toggle"]
  /\ op' = "pushUndo" /\ UNCHANGED sysVars

\* toggleAndSave: task.Toggle()
LoopToggle ==
  /\ sut.pc = "Toggle"
  /\ sut' = [sut EXCEPT !.task = ~@, !.pc = "saveTask"]
  /\ op' = "Toggle" /\ UNCHANGED sysVars

\* toggleAndSave: saveTask(task)
LoopSaveTask ==
  /\ sut.pc = "saveTask"
  /\ sut' = [sut EXCEPT !.disk = sut.task, !.pc = "idle"]
  /\ op' = "saveTask" /\ UNCHANGED sysVars

\* FileChangeMsg: m.cache.Invalidate(msg.Path)
LoopInvalidate ==
  /\ LoopTakes("FileChangeMsg")
  /\ sut' = [sut EXCEPT !.q = Tail(@), !.cache = NoCache, !.pc = "Trigger"]
  /\ op' = "Invalidate" /\ UNCHANGED sysVars

\* FileChangeMsg: m.debouncer.Trigger()
LoopTrigger ==
  /\ sut.pc = "Trigger"
  /\ sut' = [sut EXCEPT !.d = Trigger(@, sut.now), !.pc = "idle"]
  /\ op' = "Trigger" /\ UNCHANGED sysVars

\* DebouncedRefreshMsg: refreshWithCache, the cache Get or parseFile and Set
LoopCacheGet ==
  /\ LoopTakes("DebouncedRefreshMsg")
  /\ sut' = [sut EXCEPT !.q = Tail(@), !.pc = "assign",
                        !.local = IF sut.cache.cached THEN sut.cache.Done ELSE sut.disk,
                        !.cache = IF sut.cache.cached THEN @
                                  ELSE [cached |-> TRUE, Done |-> sut.disk]]
  /\ op' = "cacheGet" /\ UNCHANGED sysVars

\* DebouncedRefreshMsg: refreshWithCache, m.sections and m.tasks assigned
LoopAssign ==
  /\ sut.pc = "assign"
  /\ sut' = [sut EXCEPT !.task = sut.local, !.pc = "idle"]
  /\ op' = "assign" /\ UNCHANGED sysVars

\* the runtime finds the timer expired and starts its function
LoopExpire ==
  /\ TimerDue(sut.d, sut.now)
  /\ sut' = [sut EXCEPT !.d = TimerExpire(@, sut.now)]
  /\ op' = "Expire" /\ UNCHANGED sysVars

\* the function of the timer, on its own goroutine
LoopCallback ==
  /\ sut.d.callbacks > 0
  /\ sut' = programSend([sut EXCEPT !.d = CallbackDone(@)])
  /\ op' = "callback" /\ UNCHANGED sysVars

LoopTick ==
  /\ sut.now < MaxLoopTime /\ ~TimerDue(sut.d, sut.now)
  /\ sut' = [sut EXCEPT !.now = @ + 1]
  /\ op' = "Tick" /\ UNCHANGED sysVars

NextLoop ==
  \/ LoopKey \/ LoopEvent
  \/ LoopPushUndo \/ LoopToggle \/ LoopSaveTask
  \/ LoopInvalidate \/ LoopTrigger
  \/ LoopCacheGet \/ LoopAssign
  \/ LoopExpire \/ LoopCallback \/ LoopTick

SpecLoop == InitLoop /\ [][NextLoop]_vars

\* the steps of the Update loop
UpdateSteps ==
  {"pushUndo", "Toggle", "saveTask", "Invalidate", "Trigger", "cacheGet", "assign"}

\* the state that only Update may change
loopOwned(s) == <<s.cache, s.task, s.undoStack, s.local, s.pc>>

\* C23: the function of the debounce timer does nothing but send one
\* DebouncedRefreshMsg (nothing without a program); the cache, the view and
\* the undo stack change only in steps of the Update loop; and while the
\* handler of a key is between its statements, no step but its own changes
\* them, so no refresh runs within it.
C23_Loop ==
  [][ /\ op' = "callback" =>
            /\ loopOwned(sut') = loopOwned(sut) /\ sut'.disk = sut.disk
            /\ sut'.q = IF sut.d.program THEN Append(sut.q, "DebouncedRefreshMsg") ELSE sut.q
      /\ loopOwned(sut') # loopOwned(sut) => op' \in UpdateSteps
      /\ (sut.pc \in {"Toggle", "saveTask"} /\ loopOwned(sut') # loopOwned(sut)) =>
            op' \in {"Toggle", "saveTask"}
      /\ op' \in {"cacheGet", "assign"} => sut.pc \in {"idle", "assign"}
    ]_vars

\* the function of the timer ran while toggleAndSave was between Toggle and
\* saveTask: the message waits in the queue and the view is the handler's
C23_Witness ==
  /\ op = "callback" /\ sut.pc = "saveTask"
  /\ sut.q # <<>> /\ sut.q[Len(sut.q)] = "DebouncedRefreshMsg"
  /\ sut.task # sut.disk /\ ~sut.cache.cached

(***************************************************************************)
(* SpecScan: the loop of refreshWithCache over a vault of two files, each  *)
(* of which may be gone, unreadable, or fail while it is read.             *)
(***************************************************************************)
ScanFiles == <<"f1", "f2">>

\* how the read of a file fails: not at all, in os.Open, or in the Scanner
\* after the first line
ReadErrors == {"", "open", "scan"}

\* parseFile of a file of the vault: <<tasks, err>> as a record
parseFileOf(fs, path) ==
  IF ~fs[path].exists \/ fs[path].fail = "open" THEN [tasks |-> <<>>, err |-> TRUE]
  ELSE IF fs[path].fail = "scan"
         THEN [tasks |-> parseFile(path, Take(fs[path].lines, 1)), err |-> TRUE]
  ELSE [tasks |-> parseFile(path, fs[path].lines), err |-> FALSE]

\* the body of the loop keeping what parseFile returned with its error
loadFile_keep(acc, fs, file) ==
  With(cacheGet(acc.cache, fs, file), LAMBDA hit :
    IF hit.ok THEN [acc EXCEPT !.allTasks = @ \o hit.tasks]
    ELSE With(parseFileOf(fs, file), LAMBDA parsed :
           [cache |-> cacheSet(acc.cache, fs, file, parsed.tasks),
            allTasks |-> acc.allTasks \o parsed.tasks]))

\* the body of the loop of refreshWithCache
loadFile(acc, fs, file) ==
  With(cacheGet(acc.cache, fs, file), LAMBDA hit :
    IF hit.ok THEN [acc EXCEPT !.allTasks = @ \o hit.tasks]
    ELSE With(parseFileOf(fs, file), LAMBDA parsed :
           IF parsed.err THEN acc
           ELSE [cache |-> cacheSet(acc.cache, fs, file, parsed.tasks),
                 allTasks |-> acc.allTasks \o parsed.tasks]))

RECURSIVE loadVault(_, _, _)
loadVault(acc, fs, files) ==
  IF files = <<>> THEN acc
  ELSE loadVault(loadFile(acc, fs, Head(files)), fs, Tail(files))

ScanFileChoices ==
  [exists : BOOLEAN, mtime : {0, 1}, lines : {<<LineB>>, <<LineA, LineB>>},
   fail : ReadErrors]

\* the entry of a path: none, or the records of an earlier "- [ ] a"
ScanEntryChoices(p) == {NoEntry, CachedFile(0, parseFile(p, <<LineA>>))}

InitScan ==
  /\ \E fs \in [Paths -> ScanFileChoices], err \in BOOLEAN :
       \E e1 \in ScanEntryChoices("f1"), e2 \in ScanEntryChoices("f2") :
         sut = [fs |-> fs, cache |-> [p \in Paths |-> IF p = "f1" THEN e1 ELSE e2],
                before |-> [p \in Paths |-> IF p = "f1" THEN e1 ELSE e2],
                err |-> err, errBefore |-> err, allTasks |-> <<>>]
  /\ op = "init" /\ SysIdle

ScanStep ==
  /\ op = "init"
  /\ \E loaded \in {loadVault([cache |-> sut.cache, allTasks |-> <<>>], sut.fs, ScanFiles)} :
       sut' = [sut EXCEPT !.cache = loaded.cache, !.allTasks = loaded.allTasks]
  /\ op' = "refresh" /\ UNCHANGED sysVars

NextScan == ScanStep

SpecScan == InitScan /\ [][NextScan]_vars

\* the records of allTasks that belong to path
tasksOf(allTasks, path) == SelectSeq(allTasks, LAMBDA t : t.FilePath = path)

\* the cache missed and the extraction of path returned an error
extractionFailed(s, path) ==
  ~cacheGet(s.before, s.fs, path).ok /\ parseFileOf(s.fs, path).err

\* C24: after the loop of a refresh, a file whose extraction returned an
\* error has no record among those collected and its cache entry is as it
\* was; every other file has contributed its cached records on a hit and its
\* extracted records, now cached, on a miss; m.err is as it was.
C24_Skip ==
  op = "refresh" =>
    /\ \A p \in Paths :
         IF extractionFailed(sut, p)
           THEN tasksOf(sut.allTasks, p) = <<>> /\ sut.cache[p] = sut.before[p]
         ELSE IF cacheGet(sut.before, sut.fs, p).ok
           THEN tasksOf(sut.allTasks, p) = sut.before[p].Tasks
         ELSE /\ tasksOf(sut.allTasks, p) = parseFile(p, sut.fs[p].lines)
              /\ cacheGet(sut.cache, sut.fs, p).ok
    /\ sut.err = sut.errBefore

\* the scanner failed in f1 after its first task line, with a stale entry in
\* the cache; f2 was extracted and its two records collected
C24_Witness ==
  /\ op = "refresh"
  /\ sut.fs["f1"].exists /\ sut.fs["f1"].fail = "scan" /\ Len(sut.fs["f1"].lines) = 2
  /\ sut.before["f1"].cached /\ extractionFailed(sut, "f1")
  /\ ~sut.before["f2"].cached /\ Len(sut.allTasks) = 2 /\ ~sut.err

(***************************************************************************)
(* SpecQuery: a refresh of a model with a query file.  The file is a       *)
(* sequence of lines joined by "\n"; a line is the opening fence of a      *)
(* tasks block, a closing fence, a filter, a header or empty; the three     *)
(* backticks of a fence are written '''.                                   *)
(***************************************************************************)
MaxQueryLines == 5

QueryLines == {"'''tasks", "'''", "not done", "## h", ""}

\* the line begins with three backticks
isFence(line) == line \in {"'''tasks", "'''"}

\* the fence lines of lines from the line numbered from on
fencesFrom(lines, from) == {k \in from..Len(lines) : isFence(lines[k])}

\* the number of empty lines that follow line i
RECURSIVE blanksAfter(_, _)
blanksAfter(lines, i) ==
  IF i < Len(lines) /\ lines[i + 1] = "" THEN 1 + blanksAfter(lines, i + 1) ELSE 0

\* blockRe at the opening fence of line i: the line of the closing fence, 0
\* without a match.  \s*\n takes the empty lines, (.+?) takes at least one
\* character and ends at the first fence after it; when there is none, \s*
\* gives an empty line back and the fence after the empty lines closes
closingFence(lines, i) ==
  LET b == blanksAfter(lines, i)
  IN  IF fencesFrom(lines, i + b + 2) # {}
        THEN CHOOSE k \in fencesFrom(lines, i + b + 2) :
               \A j \in fencesFrom(lines, i + b + 2) : k <= j
      ELSE IF b >= 1 /\ i + b + 1 <= Len(lines) /\ isFence(lines[i + b + 1])
        THEN i + b + 1
      ELSE 0

\* blockRe.FindAllStringSubmatchIndex: the matches from line i on, each with
\* the line of its opening fence and the lines of its group
RECURSIVE findBlocks(_, _)
findBlocks(lines, i) ==
  IF i > Len(lines) THEN <<>>
  ELSE IF lines[i] = "'''tasks" /\ closingFence(lines, i) # 0
    THEN <<[start |-> i, content |-> SubSeq(lines, i + 1, closingFence(lines, i) - 1)]>>
         \o findBlocks(lines, closingFence(lines, i) + 1)
  ELSE findBlocks(lines, i + 1)

\* the nearest header before line i
sectionName(lines, i) == IF \E j \in 1..(i - 1) : lines[j] = "## h" THEN "h" ELSE ""

parseQueryContent(content) ==
  [Name |-> "", NotDone |-> \E j \in 1..Len(content) : content[j] = "not done",
   GroupBy |-> "", DateFilters |-> <<>>, SortBy |-> ""]

\* parseAllQueryBlocks: <<queries, err>> as a record
parseAllQueryBlocks(lines) ==
  With(findBlocks(lines, 1), LAMBDA matches :
    IF matches = <<>> THEN [queries |-> <<>>, err |-> TRUE]
    ELSE [queries |-> [n \in 1..Len(matches) |->
                         [parseQueryContent(matches[n].content)
                            EXCEPT !.Name = sectionName(lines, matches[n].start)]],
          err |-> FALSE])

\* the records of the vault: "- [ ] a" and "- [x] b" of f1
QueryTasks == parseFile("f1", <<LineA, <<"-", " ", "[x]", " ", "b">>>>)

\* refreshWithCache: the sections of the queries
buildSections(queries, allTasks) ==
  [n \in 1..Len(queries) |->
     QuerySection(filterTasksWithRecent(<<>>, allTasks, queries[n]), queries[n])]

\* refreshWithCache: the tasks of the sections, in order
RECURSIVE sectionTasks(_)
sectionTasks(sections) ==
  IF sections = <<>> THEN <<>>
  ELSE flatten(Head(sections).Groups) \o sectionTasks(Tail(sections))

\* refreshWithCache after the queries are known
showSections(mdl, allTasks) ==
  With(buildSections(mdl.queries, allTasks), LAMBDA sections :
    [mdl EXCEPT !.sections = sections, !.tasks = sectionTasks(sections),
                !.cursor = clampCursor(mdl.cursor, Len(sectionTasks(sections)))])

\* a refresh that goes on with the queries of a failed parse
refreshWithQueryFile_goOn(mdl, lines, allTasks) ==
  With(parseAllQueryBlocks(lines), LAMBDA parsed :
    showSections([mdl EXCEPT !.queries = parsed.queries, !.err = @ \/ parsed.err],
                 allTasks))

\* refreshWithCache of a model with a query file
refreshWithQueryFile(mdl, lines, allTasks) ==
  With(parseAllQueryBlocks(lines), LAMBDA parsed :
    IF parsed.err THEN [mdl EXCEPT !.err = TRUE]
    ELSE showSections([mdl EXCEPT !.queries = parsed.queries], allTasks))

QueryContents ==
  UNION {[1..n -> QueryLines] : n \in 0..MaxQueryLines}

\* the query file the program started with
StartContents ==
  {<<"'''tasks", "not done", "'''">>, <<"'''tasks", "", "'''">>}

InitQuery ==
  /\ \E start \in StartContents, lines \in QueryContents, cursor \in 0..1 :
       sut = [lines |-> lines, parsed |-> [queries |-> <<>>, err |-> FALSE],
              before |-> <<>>,
              mdl |-> refreshWithQueryFile(
                        [queries |-> <<>>, sections |-> <<>>, tasks |-> <<>>,
                         cursor |-> cursor, err |-> FALSE], start, QueryTasks)]
  /\ op = "init" /\ SysIdle

QueryStep ==
  /\ op = "init"
  /\ sut' = [sut EXCEPT !.parsed = parseAllQueryBlocks(sut.lines),
                        !.before = sut.mdl,
                        !.mdl = refreshWithQueryFile(@, sut.lines, QueryTasks)]
  /\ op' = "refresh" /\ UNCHANGED sysVars

NextQuery == QueryStep

SpecQuery == InitQuery /\ [][NextQuery]_vars

\* C25: the parse of a query file none of whose lines opens a tasks block
\* returns an error and no queries, and the refresh that made it sets m.err
\* and leaves the queries, the sections, the tasks and the cursor as they
\* were.
C25_NoBlock ==
  (op = "refresh" /\ \A i \in 1..Len(sut.lines) : sut.lines[i] # "'''tasks") =>
    /\ sut.parsed.err /\ sut.parsed.queries = <<>>
    /\ sut.mdl.err
    /\ sut.mdl.queries = sut.before.queries /\ sut.mdl.sections = sut.before.sections
    /\ sut.mdl.tasks = sut.before.tasks /\ sut.mdl.cursor = sut.before.cursor

\* the file holds a filter between closing fences and no opening fence; the
\* view still shows both records of the query it had
C25_Witness ==
  /\ op = "refresh"
  /\ sut.lines = <<"'''", "not done", "'''">>
  /\ sut.mdl.err /\ ~sut.before.err
  /\ Len(sut.mdl.tasks) = 2 /\ sut.mdl.cursor = 1

\* the key "r" in the active tab: the undo stack is empty, so that no record
\* is recently toggled, no Done record is among the tasks of the not-done
\* query of the active tab, and an Undo that follows at once changes neither
\* the model, the records, the files nor the caches
hardRefreshActive ==
  [][ /\ op' = "hardRefresh" =>
            /\ m'.undoStack = <<>>
            /\ \A i \in 1..Len(m'.tasks) :
                 /\ ~isRecentlyToggled(m'.undoStack, heap'[m'.tasks[i]])
                 /\ ~heap'[m'.tasks[i]].Done
      /\ (op = "hardRefresh" /\ op' = "undo") =>
            /\ m' = m /\ heap' = heap /\ disk' = disk /\ caches' = caches
            /\ ticks' = ticks /\ debouncers' = debouncers
    ]_vars

\* C26 as stated: after the key "r", no write having failed, the undo stack
\* is empty and no Done record is among the tasks of the not-done query of
\* any tab.
C26_Original ==
  (op = "hardRefresh" /\ env.failures = 0) =>
    /\ m.undoStack = <<>>
    /\ \A t \in Tabs : \A i \in 1..Len(m.tabs[t].Tasks) : ~heap[m.tabs[t].Tasks[i]].Done

(***************************************************************************)
(* SpecToggleMeta: Task.Toggle applied to lines that carry a description,  *)
(* a due date, a priority glyph and done-date stamps.                      *)
(***************************************************************************)
MaxMetaContent == 5
MaxMetaToggles == 2

MetaAlphabet == {" ", "a", "CHK", "D1", "DUE", "P1"}

MetaLines ==
  {p \o <<c>> \o s : p \in TogglePrefixes, c \in {"[ ]", "[x]"},
                     s \in SeqsUpTo(MetaAlphabet, MaxMetaContent)}

InitToggleMeta ==
  /\ \E line \in MetaLines :
       sut = [prev |-> parseLine("f1", 1, line), cur |-> parseLine("f1", 1, line), n |-> 0]
  /\ op = "init" /\ SysIdle

ToggleMetaStep ==
  /\ sut.n < MaxMetaToggles
  /\ sut' = [sut EXCEPT !.prev = sut.cur, !.cur = Toggle(sut.cur), !.n = @ + 1]
  /\ op' = "Toggle" /\ UNCHANGED sysVars

NextToggleMeta == ToggleMetaStep

SpecToggleMeta == InitToggleMeta /\ [][NextToggleMeta]_vars

\* the lengths n for which the first n tokens of s are a done-date stamp with
\* the white space before it: white space, the done glyph, white space, a date
stampLens(s) ==
  {n \in 1..Len(s) :
     /\ s[n] \in DigitToks
     /\ \E k \in 1..(n - 1) :
          s[k] = "CHK" /\ \A i \in (1..(n - 1)) \ {k} : IsWs(s[i])}

\* body is s with nothing but done-date stamps deleted
RECURSIVE keepsText(_, _)
keepsText(s, body) ==
  IF s = <<>> THEN body = <<>>
  ELSE \/ body # <<>> /\ Head(s) = Head(body) /\ keepsText(Tail(s), Tail(body))
       \/ \E n \in stampLens(s) : keepsText(Drop(s, n), body)

\* a due-date token with date d starts at token i of s
dueTokenAt(s, i, d) ==
  /\ i <= Len(s) /\ s[i] = "DUE"
  /\ Len(s) > i + LeadWs(Drop(s, i)) /\ s[i + LeadWs(Drop(s, i)) + 1] = d

\* C28: a Toggle keeps the indentation and the list marker of the line; the
\* text after the checkbox is the text it was with nothing but done-date
\* stamps deleted, followed by today's stamp when the record is now Done: the
\* tokens of the description are kept in their order, every due-date token
\* keeps its date and the priority glyphs are the same.
C28_ToggleFrame ==
  op = "Toggle" =>
    LET o    == ContentOf(sut.prev.RawLine)
        c    == ContentOf(sut.cur.RawLine)
        body == IF sut.cur.Done THEN Take(c, Len(c) - Len(TodayStamp)) ELSE c
        glyphs(s) == SelectSeq(s, LAMBDA t : t \in PriorityToks)
        words(s)  == SelectSeq(s, LAMBDA t : t \notin StampClass)
    IN  /\ PrefixOf(sut.cur.RawLine) = PrefixOf(sut.prev.RawLine)
        /\ sut.cur.Done => EndsWith(c, TodayStamp)
        /\ keepsText(o, body)
        /\ words(body) = words(o)
        /\ glyphs(body) = glyphs(o)
        /\ \A i \in 1..Len(o), d \in DateToks :
             dueTokenAt(o, i, d) => \E j \in 1..Len(body) : dueTokenAt(body, j, d)

\* a Done line with a due date, a priority glyph and a stamp has lost the
\* stamp and nothing else
C28_Witness ==
  /\ op = "Toggle" /\ ~sut.cur.Done
  /\ ContentOf(sut.prev.RawLine) = <<"DUE", "D1", "P1", "CHK">> \o <<"D1">>
  /\ ContentOf(sut.cur.RawLine) = <<"DUE", "D1", "P1">>

(***************************************************************************)
(* SpecDue: the section of a query over records with no due date or one of *)
(* two dates.                                                              *)
(***************************************************************************)
DueDates == {NoDate, 1, 2}

DueTaskChoices(path) ==
  {<<>>} \cup {<<[FilePath |-> path, LineNumber |-> 1, Priority |-> PriorityNormal,
                  DueDate |-> d]>> : d \in DueDates}

InitDue ==
  /\ \E t1 \in DueTaskChoices(GroupFiles[1]), t2 \in DueTaskChoices(GroupFiles[2]),
        t3 \in DueTaskChoices(GroupFiles[3]), t4 \in DueTaskChoices(GroupFiles[4]) :
       sut = [filtered |-> t1 \o t2 \o t3 \o t4, evaluated |-> FALSE,
              section |-> NoSection]
  /\ op = "init"
  /\ SysIdle

SpecDue == InitDue /\ [][NextGroup]_vars

\* C29: with SortBy due the records of every group that have a DueDate are
\* in ascending order of date and before every record of the group without
\* one, and two records of a group with the same date, or both without a
\* date, are in the order they have in the filtered input.
C29_DueSort ==
  (sut.evaluated /\ sut.section.Query.SortBy = "due") =>
    \A g \in 1..Len(sut.section.Groups) :
      \A i, j \in 1..Len(sut.section.Groups[g].Tasks) :
        i < j =>
          LET a == sut.section.Groups[g].Tasks[i]
              b == sut.section.Groups[g].Tasks[j]
          IN  /\ b.DueDate # NoDate => a.DueDate # NoDate /\ a.DueDate <= b.DueDate
              /\ a.DueDate = b.DueDate =>
                   placeIn(sut.filtered, a) < placeIn(sut.filtered, b)

\* a record without a date, first in the input, is last in its group, after
\* two records of the earlier date in their input order and, before them in
\* the input, one of the later date
C29_Witness ==
  /\ op = "groupTasks"
  /\ sut.section.Query.SortBy = "due" /\ sut.section.Query.GroupBy = ""
  /\ Len(sut.filtered) = 4
  /\ sut.filtered[1].DueDate = NoDate /\ sut.filtered[2].DueDate = 2
  /\ sut.filtered[3].DueDate = 1 /\ sut.filtered[4].DueDate = 1
  /\ sut.section.Groups[1].Tasks =
       <<sut.filtered[3], sut.filtered[4], sut.filtered[2], sut.filtered[1]>>

\* the place of the first record of tasks with the key
firstWith(tasks, groupBy, key) ==
  CHOOSE i \in 1..Len(tasks) :
    /\ groupKey(groupBy, tasks[i]) = key
    /\ \A j \in 1..(i - 1) : groupKey(groupBy, tasks[j]) # key

\* C30: with GroupBy folder or filename every filtered record is in exactly
\* one group, once, and that group is named by the record's key; every group
\* holds filtered records only; the groups are in the order in which their
\* keys first occur in the filtered input; and without a SortBy the records
\* of a group are in the order of the filtered input.
C30_Partition ==
  (sut.evaluated /\ sut.section.Query.GroupBy \in {"folder", "filename"}) =>
    LET groups  == sut.section.Groups
        groupBy == sut.section.Query.GroupBy
        has(g, t) == \E i \in 1..Len(groups[g].Tasks) : groups[g].Tasks[i] = t
    IN  /\ \A n \in 1..Len(sut.filtered) :
             \A g \in 1..Len(groups) :
               has(g, sut.filtered[n]) <=>
                 groups[g].Name = groupKey(groupBy, sut.filtered[n])
        /\ \A n \in 1..Len(sut.filtered) : \E g \in 1..Len(groups) : has(g, sut.filtered[n])
        /\ \A g \in 1..Len(groups) :
             /\ groups[g].Tasks # <<>>
             /\ \A i \in 1..Len(groups[g].Tasks) :
                  /\ \E n \in 1..Len(sut.filtered) : sut.filtered[n] = groups[g].Tasks[i]
                  /\ \A j \in 1..Len(groups[g].Tasks) :
                       groups[g].Tasks[i] = groups[g].Tasks[j] => i = j
        /\ \A g, h \in 1..Len(groups) :
             g < h => /\ groups[g].Name # groups[h].Name
                      /\ firstWith(sut.filtered, groupBy, groups[g].Name)
                           < firstWith(sut.filtered, groupBy, groups[h].Name)
        /\ sut.section.Query.SortBy = "" =>
             \A g \in 1..Len(groups) :
               \A i, j \in 1..Len(groups[g].Tasks) :
                 i < j => placeIn(sut.filtered, groups[g].Tasks[i])
                            < placeIn(sut.filtered, groups[g].Tasks[j])

\* four records grouped by folder without a SortBy: the folder of the vault
\* root, first seen second, is the second group and holds two records
C30_Witness ==
  /\ op = "groupTasks"
  /\ sut.section.Query.GroupBy = "folder" /\ sut.section.Query.SortBy = ""
  /\ Len(sut.filtered) = 4 /\ Len(sut.section.Groups) = 3
  /\ sut.section.Groups[1].Name = "a" /\ sut.section.Groups[2].Name = "/"
  /\ sut.section.Groups[3].Name = "c"
  /\ sut.section.Groups[2].Tasks = <<sut.filtered[2], sut.filtered[4]>>

(***************************************************************************)
(* C31 on SpecFilter.                                                      *)
(***************************************************************************)
\* the DateFilters of a query that read the due date
dueFilters(filters) ==
  LET onDue(f) == f.Field = "due"
  IN  SelectSeq(filters, onDue)

\* C31: a DateFilter whose Field is scheduled or done is inert: the records
\* retained under a query are the records retained under the same query with
\* its scheduled and done filters taken out, a record without a DueDate
\* included.
C31_Inert ==
  op = "filter" =>
    sut.filtered =
      filterTasksWithRecent(sut.undoStack, <<sut.task>>,
                            [sut.query EXCEPT !.DateFilters = dueFilters(@)])

\* a record without a DueDate is retained under a scheduled and a done filter
C31_Witness ==
  /\ op = "filter"
  /\ sut.task.DueDate = NoDate
  /\ Len(sut.query.DateFilters) = 2
  /\ sut.query.DateFilters[1].Field = "scheduled"
  /\ sut.query.DateFilters[2].Field = "done"
  /\ sut.filtered = <<sut.task>>

(***************************************************************************)
(* C32: the lines a confirmed Delete leaves, and the records shown after   *)
(* the refresh of the handler.                                             *)
(***************************************************************************)
\* lines without line k: the lines before k, then each later line one up
withoutLine(lines, k) ==
  [j \in 1..(Len(lines) - 1) |-> IF j < k THEN lines[j] ELSE lines[j + 1]]

\* the view's record i stands for the line of its file that holds its RawLine
addressesItsLine(fs, h, id) ==
  /\ h[id].LineNumber \in 1..Len(fs[h[id].FilePath].lines)
  /\ fs[h[id].FilePath].lines[h[id].LineNumber] = h[id].RawLine

MaxWatchEvents == 2

WatchNames ==
  {<<"a", ".md">>, <<"A", ".MD">>, <<"a", ".md", ".tmp">>, <<"b", ".txt">>}

WatchOps ==
  {{"Create"}, {"Write"}, {"Remove"}, {"Rename"}, {"Chmod"}, {"Write", "Chmod"}}

\* strings.ToLower
ToLower(name) ==
  [i \in 1..Len(name) |->
     CASE name[i] = "A"   -> "a"
       [] name[i] = ".MD" -> ".md"
       [] OTHER           -> name[i]]

\* strings.HasSuffix(name, ".md")
HasSuffixMd(name) == name # <<>> /\ name[Len(name)] = ".md"

\* event.Has(op)
Has(event, o) == o \in event.Op

NoMsg == [Path |-> <<>>, Deleted |-> FALSE]

NoEvent == [Name |-> <<>>, Op |-> {}]

\* the loop of the command on the events queued: the events it takes from the
\* channel and the message it returns, NoMsg when it blocks on an empty
\* channel
RECURSIVE WatchCmd(_, _)
WatchCmd(events, taken) ==
  IF taken = Len(events)
    THEN [taken |-> taken, msg |-> NoMsg, from |-> NoEvent]
  ELSE LET event == events[taken + 1]
       IN  IF ~HasSuffixMd(ToLower(event.Name))
             THEN WatchCmd(events, taken + 1)
             ELSE [taken |-> taken + 1,
                   msg   |-> [Path    |-> event.Name,
                              Deleted |-> Has(event, "Remove") \/ Has(event, "Rename")],
                   from  |-> event]

InitWatch ==
  /\ sut = [events |-> <<>>, msg |-> NoMsg, from |-> NoEvent, sent |-> 0]
  /\ op = "init" /\ SysIdle

\* fsnotify queues an event
WatchEvent ==
  /\ sut.sent < MaxWatchEvents
  /\ \E name \in WatchNames, o \in WatchOps :
       sut' = [sut EXCEPT !.events = Append(@, [Name |-> name, Op |-> o]),
                          !.sent = @ + 1]
  /\ op' = "event" /\ UNCHANGED sysVars

\* the command runs on what is queued: it returns a message or blocks again
WatchRead ==
  /\ sut.events # <<>>
  /\ \E r \in {WatchCmd(sut.events, 0)} :
       sut' = [sut EXCEPT !.events = SubSeq(@, r.taken + 1, Len(@)),
                          !.msg = r.msg, !.from = r.from]
  /\ op' = "read" /\ UNCHANGED sysVars

NextWatch == WatchEvent \/ WatchRead

SpecWatch == InitWatch /\ [][NextWatch]_vars

\* C33 (as stated): a FileChangeMsg is returned only for an event on a
\* markdown path whose operation is create, write, remove or rename.
C33_Original ==
  (op = "read" /\ sut.msg # NoMsg) =>
    /\ HasSuffixMd(ToLower(sut.from.Name))
    /\ \E o \in {"Create", "Write", "Remove", "Rename"} : Has(sut.from, o)

(***************************************************************************)
(* C34: the watch commands outstanding on each Watcher.                    *)
(***************************************************************************)
\* C34 (as stated): between two runs of Update every Watcher started in Init
\* has exactly one watch command outstanding.
C34_Original ==
  \A tab \in 1..NumTabs(m.tabsEnabled) : watchers[tab].readers = 1

\* without tabs the one Watcher has exactly one watch command outstanding
singleReader ==
  ~m.tabsEnabled => watchers[1].readers = 1 /\ watchers[2].readers = 0

(***************************************************************************)
(* C35: the records exempted from the not-done filter after a Delete.      *)
(***************************************************************************)
\* the records of the view that isRecentlyToggled exempts, each named by its
\* file and the word its text starts with (the stamp of a Toggle follows it)
exemptShown(undoStack, tasks, h) ==
  {<<h[tasks[i]].FilePath, Head(h[tasks[i]].Description)>> :
     i \in {j \in 1..Len(tasks) : isRecentlyToggled(undoStack, h[tasks[j]])}}

\* C35 (as stated): when no other program writes to the vault, a confirmed
\* Delete that writes the file makes no record exempt that was not exempt
\* before it: a record shown as recently toggled after the Delete was shown as
\* recently toggled before it.
C35_Original ==
  [][ (op' = "delete" /\ env'.wrote # "") =>
        exemptShown(m'.undoStack, m'.tasks, heap')
          \subseteq exemptShown(m.undoStack, m.tasks, heap) ]_vars

(***************************************************************************)
(* C36: a burst of priority keys on one record.  The keys of a burst are   *)
(* pressed within one tick of the clock (500ms); while every key so far    *)
(* was a priority key, env.seq counts them as env.keys does.               *)
(***************************************************************************)
\* the prioritySaveMsg the step handles
deliveredSave == CHOOSE x \in ticks \ ticks' : TRUE

\* the message is the one of the last press on its record
latestSave(x) == [key |-> x.key, at |-> x.at] \in m.prioritySavePending

\* C36: while the user has pressed nothing but priority keys, no other program
\* writes and no write fails, the prioritySaveMsg of a superseded press leaves
\* the files as they are; the message of the last press on a record is
\* delivered 500ms after that press, writes the file once (the modification
\* count of the file goes up by one), and the line at the record's LineNumber
\* is then the record's RawLine, from which extraction reads the record's
\* priority; no record has two messages that would write.
C36_Burst ==
  [][ ( /\ op' = "prioritySave"
        /\ env.keys = env.seq
        /\ env.external = 0
        /\ env'.failures = 0 )
      => /\ \A x \in ticks, y \in ticks :
              (x.key = y.key /\ latestSave(x) /\ latestSave(y)) => x = y
         /\ ~latestSave(deliveredSave) => disk' = disk
         /\ latestSave(deliveredSave) =>
              LET t == heap[deliveredSave.task]
              IN  /\ now = deliveredSave.due
                  /\ \A p \in Paths \ {t.FilePath} : disk'[p] = disk[p]
                  /\ disk'[t.FilePath].mtime = disk[t.FilePath].mtime + 1
                  /\ disk'[t.FilePath].lines[t.LineNumber] = t.RawLine
                  /\ parseLine(t.FilePath, t.LineNumber,
                               disk'[t.FilePath].lines[t.LineNumber]).Priority
                       = t.Priority
                  /\ \A y \in ticks' : y.key = deliveredSave.key => ~latestSave(y)'
    ]_vars

\* two presses of a priority key on the record of f1 within 500ms, both
\* messages delivered: the file was written once and holds the priority the
\* second press left
C36_Witness ==
  /\ op = "prioritySave"
  /\ env.keys = 2 /\ env.seq = 2 /\ env.external = 0 /\ env.failures = 0
  /\ ticks = {}
  /\ Len(m.undoStack) = 2
  /\ m.undoStack[1].FilePath = "f1" /\ m.undoStack[2].FilePath = "f1"
  /\ disk["f1"].mtime = 1
  /\ parseLine("f1", 1, disk["f1"].lines[1]).Priority = PriorityHigh

(***************************************************************************)
(* C37: the undo stack when the inverse of the top entry is not written.   *)
(***************************************************************************)
\* C37 (as stated): an Undo whose write fails, or that writes no file, leaves
\* the undo stack as it was.
C37_Original ==
  [][ (op' = "undo" /\ (writeFailed \/ env'.wrote = "")) =>
        m'.undoStack = m.undoStack ]_vars

(***************************************************************************)
(* SpecCursor: the cursor under keys, search, refreshes and tab switches.  *)
(* The view is the model's fields the handlers of the cursor read and      *)
(* write; a task is its pointer (1 or 2), and a list may hold a pointer    *)
(* twice, as m.tasks does for a record shown by two sections.  Task 1 has  *)
(* the description "a"; task 2 has the description "b" and stands in a     *)
(* section named "a".  A refresh may bring any list of tasks.              *)
(***************************************************************************)
MaxShown == 3

MaxSearchQuery == 2

SearchChars == {"a", "b", "A"}

TaskLists == SeqsUpTo({1, 2}, MaxShown)

SearchDescription(task) == IF task = 1 THEN <<"a">> ELSE <<"b">>

\* m.taskToSection[task]
SearchSection(task) == IF task = 1 THEN <<>> ELSE <<"a">>

\* m.taskToGroup[task]
SearchGroup(task) == <<>>

\* strings.Contains
Contains(s, substr) ==
  \E i \in 0..(Len(s) - Len(substr)) : SubSeq(s, i + 1, i + Len(substr)) = substr

\* the loop of filterBySearch from task i on
RECURSIVE searchFrom(_, _, _, _)
searchFrom(tasks, i, query, filtered) ==
  IF i > Len(tasks) THEN filtered
  ELSE LET task == tasks[i]
           seen == \E j \in 1..Len(filtered) : filtered[j] = task
       IN  IF seen THEN searchFrom(tasks, i + 1, query, filtered)
           ELSE IF \/ Contains(ToLower(SearchDescription(task)), query)
                   \/ Contains(ToLower(SearchSection(task)), query)
                   \/ Contains(ToLower(SearchGroup(task)), query)
                  THEN searchFrom(tasks, i + 1, query, Append(filtered, task))
                  ELSE searchFrom(tasks, i + 1, query, filtered)

filterBySearch(v) ==
  IF v.searchQuery = <<>> THEN [v EXCEPT !.filteredTasks = <<>>]
  ELSE LET filtered == searchFrom(v.tasks, 1, ToLower(v.searchQuery), <<>>)
       IN  [v EXCEPT !.filteredTasks = filtered,
                     !.cursor = clampCursor(@, Len(filtered))]

activeTasks(v) ==
  IF v.searching /\ v.searchQuery # <<>> THEN v.filteredTasks ELSE v.tasks

\* what refreshWithCache does once it has the new list of tasks
refreshView(v, tasks) ==
  LET v1 == [v EXCEPT !.tasks = tasks]
      v2 == IF v1.searching /\ v1.searchQuery # <<>> THEN filterBySearch(v1) ELSE v1
      v3 == [v2 EXCEPT !.cursor = clampCursor(@, Len(v2.tasks))]
  IN  IF v3.tabsEnabled
        THEN [v3 EXCEPT !.tabs[v3.activeTab] = [Tasks |-> v3.tasks, Cursor |-> v3.cursor]]
        ELSE v3

\* switchTab, on the fields of the view
switchView(v, newTab) ==
  IF ~v.tabsEnabled \/ newTab = v.activeTab THEN v
  ELSE LET saved == [v.tabs EXCEPT ![v.activeTab] =
                       [Tasks |-> v.tasks, Cursor |-> v.cursor]]
           tab   == saved[newTab]
       IN  [v EXCEPT !.tabs = saved, !.activeTab = newTab,
                     !.tasks = tab.Tasks,
                     !.searching = FALSE, !.searchNavigating = FALSE,
                     !.searchQuery = <<>>, !.filteredTasks = <<>>,
                     !.cursor = IF tab.Cursor >= Len(tab.Tasks)
                                  THEN (IF Len(tab.Tasks) > 0
                                          THEN Len(tab.Tasks) - 1 ELSE 0)
                                  ELSE tab.Cursor]

\* leaving the search
searchOff(v) ==
  [v EXCEPT !.searching = FALSE, !.searchNavigating = FALSE,
            !.searchQuery = <<>>, !.filteredTasks = <<>>, !.cursor = 0]

InitCursor ==
  /\ \E tabsEnabled \in BOOLEAN, t1 \in TaskLists, t2 \in TaskLists :
       sut = [tabsEnabled |-> tabsEnabled, activeTab |-> 1,
              tabs |-> [t \in Tabs |-> [Tasks  |-> IF t = 1 THEN t1
                                                   ELSE IF tabsEnabled THEN t2 ELSE <<>>,
                                        Cursor |-> 0]],
              tasks |-> t1, cursor |-> 0,
              searching |-> FALSE, searchNavigating |-> FALSE,
              searchQuery |-> <<>>, filteredTasks |-> <<>>,
              indexed |-> TRUE]
  /\ op = "init" /\ SysIdle

CursorStep(v, label) == sut' = v /\ op' = label /\ UNCHANGED sysVars

Normal == ~sut.searching

Typing == sut.searching /\ ~sut.searchNavigating

Navigating == sut.searching /\ sut.searchNavigating

\* key "/"
CursorSlash ==
  /\ Normal
  /\ CursorStep([sut EXCEPT !.searching = TRUE, !.searchQuery = <<>>,
                            !.filteredTasks = <<>>, !.cursor = 0], "slash")

\* keys "up", "k"
CursorUp ==
  /\ sut.cursor > 0
  /\ CursorStep([sut EXCEPT !.cursor = @ - 1], "up")

\* keys "down", "j": the list is m.tasks when not searching
CursorDown ==
  /\ sut.cursor < Len(IF Normal THEN sut.tasks ELSE activeTasks(sut)) - 1
  /\ CursorStep([sut EXCEPT !.cursor = @ + 1], "down")

\* key "g"
CursorTop ==
  /\ Normal
  /\ CursorStep([sut EXCEPT !.cursor = 0], "top")

\* key "G"
CursorBottom ==
  /\ Normal /\ Len(sut.tasks) > 0
  /\ CursorStep([sut EXCEPT !.cursor = Len(sut.tasks) - 1], "bottom")

\* a key that takes m.tasks[m.cursor] (toggle, edit, delete, add, priority):
\* indexed tells whether the index was within the list
CursorUse ==
  /\ Normal /\ Len(sut.tasks) > 0
  /\ CursorStep([sut EXCEPT !.indexed = sut.cursor \in 0..(Len(sut.tasks) - 1)], "use")

\* the same keys while navigating the results: tasks[m.cursor] of activeTasks
CursorUseFound ==
  /\ Navigating
  /\ Len(activeTasks(sut)) > 0 /\ sut.cursor < Len(activeTasks(sut))
  /\ CursorStep([sut EXCEPT !.indexed = sut.cursor \in 0..(Len(activeTasks(sut)) - 1)],
                "useFound")

\* keys "tab", "shift+tab"
CursorTab ==
  /\ Normal /\ sut.tabsEnabled
  /\ CursorStep(switchView(sut, 3 - sut.activeTab), "tab")

\* a key of one character while typing the query
CursorType ==
  /\ Typing /\ Len(sut.searchQuery) < MaxSearchQuery
  /\ \E c \in SearchChars :
       CursorStep(filterBySearch([sut EXCEPT !.searchQuery = Append(@, c)]), "type")

\* key "backspace" while typing
CursorBackspace ==
  /\ Typing /\ Len(sut.searchQuery) > 0
  /\ CursorStep(filterBySearch([sut EXCEPT !.searchQuery =
                                  SubSeq(@, 1, Len(@) - 1)]), "backspace")

\* key "enter" while typing
CursorEnter ==
  /\ Typing
  /\ CursorStep(IF Len(sut.filteredTasks) > 0
                  THEN [sut EXCEPT !.searchNavigating = TRUE]
                  ELSE IF sut.searchQuery = <<>>
                         THEN [sut EXCEPT !.searching = FALSE]
                         ELSE sut, "enter")

\* keys "esc", "ctrl+[" while searching ("/" and "q" too while navigating)
CursorEsc ==
  /\ sut.searching
  /\ CursorStep(searchOff(sut), "esc")

\* key "backspace" while navigating
CursorResume ==
  /\ Navigating
  /\ CursorStep([sut EXCEPT !.searchNavigating = FALSE], "resume")

\* a refresh (key "r", DebouncedRefreshMsg, editorFinishedMsg, the dialogs,
\* Undo of a Delete) with the tasks the vault now yields
CursorRefresh ==
  /\ \E tasks \in TaskLists : sut' = refreshView(sut, tasks)
  /\ op' = "refresh" /\ UNCHANGED sysVars

NextCursor ==
  \/ CursorSlash \/ CursorUp \/ CursorDown \/ CursorTop \/ CursorBottom
  \/ CursorUse \/ CursorUseFound \/ CursorTab
  \/ CursorType \/ CursorBackspace \/ CursorEnter \/ CursorEsc \/ CursorResume
  \/ CursorRefresh

SpecCursor == InitCursor /\ [][NextCursor]_vars

\* C38: the cursor is 0 when the active task list is empty and otherwise an
\* index into it, the same holds for the list and cursor stored for each tab,
\* and no handler has taken tasks[cursor] outside the list.
C38_Cursor ==
  /\ sut.cursor \in 0..(IF activeTasks(sut) = <<>> THEN 0 ELSE Len(activeTasks(sut)) - 1)
  /\ sut.tabsEnabled =>
       \A t \in Tabs :
         sut.tabs[t].Cursor \in
           0..(IF sut.tabs[t].Tasks = <<>> THEN 0 ELSE Len(sut.tabs[t].Tasks) - 1)
  /\ sut.indexed

\* while the results of a search are navigated, a refresh brings tasks none
\* of which matches the query: the active list is empty and the cursor is 0
C38_Witness ==
  /\ op = "refresh"
  /\ sut.searching /\ sut.searchNavigating /\ sut.searchQuery # <<>>
  /\ sut.tasks # <<>> /\ sut.filteredTasks = <<>>
  /\ sut.cursor = 0

(***************************************************************************)
(* SpecSuppress: the FileChangeMsg handler and the writes that feed it.    *)
(* The program runs without tabs; sut holds the fields of the world the    *)
(* handler reads and writes.  An event may reach Update any time after the *)
(* write that caused it; log keeps, for every event handled, the path, the *)
(* entry of selfModifiedFiles it met and the time.                         *)
(***************************************************************************)
MaxSuppressWrites == 3

MaxSuppressTime == 2

InitSuppress ==
  /\ sut = [m   |-> [selfModifiedFiles |-> [p \in Paths |-> NoTime],
                     activeTab |-> 1, tabsEnabled |-> FALSE],
            now        |-> 0,
            caches     |-> [t \in Tabs |-> [p \in Paths |-> CachedFile(0, <<>>)]],
            debouncers |-> [t \in Tabs |-> NewDebouncer],
            watchers   |-> [t \in Tabs |-> [events |-> <<>>, readers |-> 1]],
            env        |-> [dirty |-> {}],
            writes     |-> 0,
            log        |-> <<>>]
  /\ op = "init" /\ SysIdle

\* a write of the program that succeeds: m.selfModifiedFiles[path] = time.Now()
SuppressToolWrite ==
  /\ sut.writes < MaxSuppressWrites
  /\ \E path \in {"f1"} :
       sut' = [notify(recordSelf(sut, path), path) EXCEPT !.writes = @ + 1]
  /\ op' = "toolWrite" /\ UNCHANGED sysVars

\* a write of another program
SuppressOtherWrite ==
  /\ sut.writes < MaxSuppressWrites
  /\ \E path \in {"f1"} : sut' = [notify(sut, path) EXCEPT !.writes = @ + 1]
  /\ op' = "otherWrite" /\ UNCHANGED sysVars

\* 500ms pass
SuppressTick ==
  /\ sut.now < MaxSuppressTime
  /\ sut' = [sut EXCEPT !.now = @ + 1]
  /\ op' = "tick" /\ UNCHANGED sysVars

\* Update takes the FileChangeMsg of the oldest event
SuppressHandle ==
  /\ sut.watchers[1].events # <<>> /\ sut.watchers[1].readers > 0
  /\ \E path \in {Head(sut.watchers[1].events)} :
       sut' = [handleFileChange([sut EXCEPT !.watchers[1].events = Tail(@),
                                            !.watchers[1].readers = @ - 1], path)
                 EXCEPT !.log = Append(@, [path  |-> path,
                                           entry |-> sut.m.selfModifiedFiles[path],
                                           at    |-> sut.now])]
  /\ op' = "fileChange" /\ UNCHANGED sysVars

\* the debounced refresh: the cache holds the files again
SuppressRefresh ==
  /\ sut.debouncers[1].timer = "armed" /\ sut.now >= sut.debouncers[1].deadline
  /\ sut' = [sut EXCEPT !.debouncers[1] = NewDebouncer,
                        !.caches[1] = [p \in Paths |-> CachedFile(0, <<>>)]]
  /\ op' = "refresh" /\ UNCHANGED sysVars

NextSuppress ==
  \/ SuppressToolWrite \/ SuppressOtherWrite \/ SuppressTick
  \/ SuppressHandle \/ SuppressRefresh

SpecSuppress == InitSuppress /\ [][NextSuppress]_vars

\* the event handled by the step
handledEvent == sut'.log[Len(sut'.log)]

\* C39: a FileChangeMsg for a path recorded less than 500ms ago is skipped and
\* removes the entry (no cache and no debouncer changes); a FileChangeMsg for
\* a path without an entry - none was made, or an earlier event used it up -
\* or with an entry of 500ms ago or older leaves selfModifiedFiles as it is,
\* invalidates the cache entry of the path and arms the debouncer.
C39_OneShot ==
  [][ op' = "fileChange" =>
        IF /\ handledEvent.entry # NoTime
           /\ handledEvent.at - handledEvent.entry < SelfWindow
          THEN /\ sut'.m.selfModifiedFiles =
                    [sut.m.selfModifiedFiles EXCEPT ![handledEvent.path] = NoTime]
               /\ sut'.caches = sut.caches
               /\ sut'.debouncers = sut.debouncers
          ELSE /\ sut'.m.selfModifiedFiles = sut.m.selfModifiedFiles
               /\ ~sut'.caches[1][handledEvent.path].cached
               /\ sut'.debouncers[1].timer = "armed"
               /\ sut'.debouncers[1].deadline = sut.now + DebounceTicks
    ]_vars

\* three events for f1 were handled: the first met a fresh entry and was
\* skipped, the second met no entry, the third met the entry of a later write
\* 500ms or more old; the last two were processed
C39_Witness ==
  /\ op = "fileChange"
  /\ Len(sut.log) = 3
  /\ sut.log[1].entry # NoTime /\ sut.log[1].at - sut.log[1].entry < SelfWindow
  /\ sut.log[2].entry = NoTime
  /\ sut.log[3].entry # NoTime /\ sut.log[3].at - sut.log[3].entry >= SelfWindow
  /\ sut.m.selfModifiedFiles["f1"] = sut.log[3].entry
  /\ ~sut.caches[1]["f1"].cached
  /\ sut.debouncers[1].timer = "armed"

\* in the program as a whole (Spec), where every event is handled before time
\* passes: the same rule for every FileChange step
suppressOnce ==
  [][ (op' = "fileChange" /\ handledPath # "") =>
        IF /\ m.selfModifiedFiles[handledPath] # NoTime
           /\ now - m.selfModifiedFiles[handledPath] < SelfWindow
          THEN /\ m'.selfModifiedFiles =
                    [m.selfModifiedFiles EXCEPT ![handledPath] = NoTime]
               /\ caches' = caches
               /\ debouncers' = debouncers
          ELSE /\ m'.selfModifiedFiles = m.selfModifiedFiles
               /\ ~caches'[m.activeTab][handledPath].cached
               /\ debouncers'[m.activeTab].timer = "armed"
    ]_vars

(***************************************************************************)
(* SpecLoader: RunWithLoader.  scan is the position of the background      *)
(* goroutine, main the position of RunWithLoader; result is the variable   *)
(* both share.  The goroutine writes result under mu; RunWithLoader reads  *)
(* it without mu, so a read that is not ordered after the close of done    *)
(* may yield, for each field, the value written or the zero value.         *)
(***************************************************************************)
LoaderVaults == {<<>>, <<"f1">>, <<"f1", "f2">>}

NoResult == [Files |-> <<>>, Tasks |-> <<>>, Cache |-> FALSE, Error |-> FALSE]

InitLoader ==
  /\ \E useCache \in BOOLEAN, scanErr \in BOOLEAN, files \in LoaderVaults :
       sut = [useCache |-> useCache, scanErr |-> scanErr,
              vault    |-> IF scanErr THEN <<>> ELSE files,
              scan     |-> "scanVault", i |-> 0, allTasks |-> <<>>,
              done     |-> FALSE,
              result   |-> NoResult,
              main     |-> "select", by |-> "", raced |-> FALSE,
              returned |-> NoResult]
  /\ op = "init" /\ SysIdle

\* files, err := scanVault(vaultPath); on an error result.Error is set and
\* the goroutine returns
LoaderScanVault ==
  /\ sut.scan = "scanVault"
  /\ sut' = IF sut.scanErr
              THEN [sut EXCEPT !.result.Error = TRUE, !.scan = "close"]
              ELSE [sut EXCEPT !.scan = "files"]
  /\ op' = "scanVault" /\ UNCHANGED sysVars

\* result.Files = files
LoaderSetFiles ==
  /\ sut.scan = "files"
  /\ sut' = [sut EXCEPT !.result.Files = sut.vault, !.scan = "parse"]
  /\ op' = "setFiles" /\ UNCHANGED sysVars

\* one turn of the loop over the files: parseFile, cache.Set, append
LoaderParse ==
  /\ sut.scan = "parse" /\ sut.i < Len(sut.vault)
  /\ sut' = [sut EXCEPT
       !.i = @ + 1,
       !.allTasks = @ \o parseFile(sut.vault[sut.i + 1],
                                   InitialDisk[sut.vault[sut.i + 1]].lines)]
  /\ op' = "parse" /\ UNCHANGED sysVars

\* result.Tasks = allTasks
LoaderSetTasks ==
  /\ sut.scan = "parse" /\ sut.i = Len(sut.vault)
  /\ sut' = [sut EXCEPT !.result.Tasks = sut.allTasks, !.scan = "cache"]
  /\ op' = "setTasks" /\ UNCHANGED sysVars

\* result.Cache = cache
LoaderSetCache ==
  /\ sut.scan = "cache"
  /\ sut' = [sut EXCEPT !.result.Cache = sut.useCache, !.scan = "close"]
  /\ op' = "setCache" /\ UNCHANGED sysVars

\* defer close(done)
LoaderClose ==
  /\ sut.scan = "close"
  /\ sut' = [sut EXCEPT !.done = TRUE, !.scan = "finished"]
  /\ op' = "close" /\ UNCHANGED sysVars

\* what return result.Files, result.Tasks, result.Cache, result.Error can
\* yield: the fields as they are when the read is ordered after the close of
\* done, and otherwise each field as it is or still zero
resultReads(s) ==
  IF s.done THEN {s.result}
  ELSE [Files : {<<>>, s.result.Files}, Tasks : {<<>>, s.result.Tasks},
        Cache : {FALSE, s.result.Cache}, Error : {FALSE, s.result.Error}]

\* RunWithLoader returns
loaderReturn(s, by, read) ==
  [s EXCEPT !.main = "returned", !.by = by, !.raced = ~s.done, !.returned = read]

\* select, case <-done
LoaderFast ==
  /\ sut.main = "select" /\ sut.done
  /\ \E read \in resultReads(sut) : sut' = loaderReturn(sut, "fast", read)
  /\ op' = "return" /\ UNCHANGED sysVars

\* select, case <-time.After(loadingDelay): the loader program starts
LoaderDelay ==
  /\ sut.main = "select"
  /\ sut' = [sut EXCEPT !.main = "loader"]
  /\ op' = "delay" /\ UNCHANGED sysVars

\* <-done; p.Send(scanCompleteMsg{}); Update returns tea.Quit; p.Run returns
LoaderComplete ==
  /\ sut.main = "loader" /\ sut.done
  /\ \E read \in resultReads(sut) : sut' = loaderReturn(sut, "complete", read)
  /\ op' = "return" /\ UNCHANGED sysVars

\* the user presses "q" or "ctrl+c": Update returns tea.Quit; p.Run returns
LoaderQuit ==
  /\ sut.main = "loader"
  /\ \E read \in resultReads(sut) : sut' = loaderReturn(sut, "quit", read)
  /\ op' = "return" /\ UNCHANGED sysVars

NextLoader ==
  \/ LoaderScanVault \/ LoaderSetFiles \/ LoaderParse \/ LoaderSetTasks
  \/ LoaderSetCache \/ LoaderClose
  \/ LoaderFast \/ LoaderDelay \/ LoaderComplete \/ LoaderQuit

SpecLoader == InitLoader /\ [][NextLoader]_vars

\* C40 (as stated): RunWithLoader has returned only after the goroutine
\* closed done, whatever made it return, and what it returned is what the
\* goroutine stored.
C40_Original ==
  sut.main = "returned" =>
    /\ ~sut.raced
    /\ sut.scan = "finished" => sut.returned = sut.result

\* on the fast path and when the scan completes under the loader the return
\* follows the close of done
returnAfterDone ==
  (sut.main = "returned" /\ sut.by \in {"fast", "complete"}) =>
    ~sut.raced /\ sut.scan = "finished" /\ sut.returned = sut.result

====
